---- MODULE Spec2Model ----
(***************************************************************************)
(* A model of the SQL practice platform's core: the answer-validation      *)
(* pipeline of infra/AnswerValidator.py (safety gate, query execution,     *)
(* result comparison) and the synthetic data generator of                  *)
(* infra/DataGenerator.py (config validation, record synthesis, writing    *)
(* the table), as they are driven by app.py and SQl_answer.py.             *)
(*                                                                         *)
(* Query texts are TLA+ strings, handled character by character the way    *)
(* the Python string methods handle them.  A result table (a DataFrame) is *)
(* a record of its column names, its column dtypes and its rows.           *)
(***************************************************************************)
EXTENDS Integers, Sequences, FiniteSets, TLC

VARIABLES
    query,      \* AnswerValidator.query
    answer_df,  \* AnswerValidator.answer_df
    store,      \* the table held by output/generated_data.db
    openConns,  \* store connections opened by execute_query and not closed
    op,         \* the operation that ran last
    outcome,    \* how it ended: "ok" or the exception raised
    msg,        \* the message of that exception
    trace,      \* what the last execute_query did, in order
    sent,       \* the text the last execute_query handed to the store
    verdict,    \* what the last validate_answer did and returned
    df1,        \* comparator input: the generated answer
    df2,        \* comparator input: the expected solution
    cmp,        \* what the last _compare_dataframes did and returned
    report,     \* what the last generate_detailed_report did and returned
    rng,        \* the state of the process-wide generator of module random
    gens,       \* the DataGenerator objects of the process
    sess,       \* the web sessions running the Submit handler of app.py
    calc,       \* the last call of a DifficultyManager method and what it returned
    hs,         \* a ProgressiveHintSystem
    mgr,        \* a HintManager
    user,       \* a User: its progress
    user_file   \* the progress file of that username

vars == <<query, answer_df, store, openConns, op, outcome, msg, trace, sent,
          verdict, df1, df2, cmp, report, rng, gens, sess,
          calc, hs, mgr, user, user_file>>

validatorVars == <<query, answer_df, store, openConns, op, outcome, msg,
                   trace, sent, verdict>>
comparatorVars == <<df1, df2, cmp, report>>
generatorVars == <<rng, gens, sess>>
learnerVars == <<calc, hs, mgr, user, user_file>>
\* what no call on the learner's side touches
coreVars == <<query, answer_df, store, openConns, trace, sent, verdict,
              comparatorVars, generatorVars>>

----------------------------------------------------------------------------
(* Bounds *)

\* rows of a comparator input table
MaxRows == 2
\* connections left open before the model stops executing queries
MaxOpen == 2

----------------------------------------------------------------------------
(* Python strings *)

Char(s, i) == SubSeq(s, i, i)

Whitespace == {" ", "\t", "\n"}

\* the positions of s that hold no whitespace
Inked(s) == {i \in 1..Len(s) : Char(s, i) \notin Whitespace}

Min(S) == CHOOSE x \in S : \A y \in S : x <= y
Max(S) == CHOOSE x \in S : \A y \in S : x >= y

\* str.strip()
Strip(s) == IF Inked(s) = {} THEN "" ELSE SubSeq(s, Min(Inked(s)), Max(Inked(s)))

LowerAlpha == "abcdefghijklmnopqrstuvwxyz"
UpperAlpha == "ABCDEFGHIJKLMNOPQRSTUVWXYZ"

UpperMap ==
    [c \in {Char(LowerAlpha, i) : i \in 1..Len(LowerAlpha)} |->
        Char(UpperAlpha, CHOOSE i \in 1..Len(LowerAlpha) : Char(LowerAlpha, i) = c)]

UpperChar(c) == IF c \in DOMAIN UpperMap THEN UpperMap[c] ELSE c

RECURSIVE Upper(_)
\* str.upper(), one character at a time
Upper(s) ==
    IF Len(s) = 0 THEN ""
    ELSE IF Len(s) = 1 THEN UpperChar(s)
    ELSE Upper(SubSeq(s, 1, Len(s) \div 2)) \o Upper(SubSeq(s, Len(s) \div 2 + 1, Len(s)))

\* str.startswith(p)
StartsWith(s, p) == Len(s) >= Len(p) /\ SubSeq(s, 1, Len(p)) = p

\* p in s
Contains(s, p) == \E i \in 1..(Len(s) - Len(p) + 1) : SubSeq(s, i, i + Len(p) - 1) = p

----------------------------------------------------------------------------
(* The safety gate: AnswerValidator._validate_query_safety *)

\* self.query = None after construction; a Python None is falsy like ""
NoQuery == "<None>"

forbidden_keywords ==
    <<"DROP", "DELETE", "UPDATE", "INSERT", "ALTER", "CREATE", "TRUNCATE",
      "EXEC", "PRAGMA">>

GatePass == [ok |-> TRUE, msg |-> ""]
SecurityError(m) == [ok |-> FALSE, msg |-> m]

RECURSIVE KeywordLoop(_, _)
\* for keyword in forbidden_keywords: if keyword in normalized: raise
KeywordLoop(normalized, k) ==
    IF k > Len(forbidden_keywords) THEN GatePass
    ELSE IF Contains(normalized, forbidden_keywords[k])
         THEN SecurityError("Query contains forbidden operation: " \o forbidden_keywords[k])
         ELSE KeywordLoop(normalized, k + 1)

\* mutant: the keyword loop is skipped
GateWithoutKeywords(q) ==
    IF q = NoQuery \/ q = "" THEN SecurityError("Query is empty")
    ELSE IF ~(StartsWith(Upper(Strip(q)), "SELECT") \/ StartsWith(Upper(Strip(q)), "WITH"))
         THEN SecurityError("Only read-only SELECT queries are allowed")
         ELSE GatePass

_validate_query_safety(q) ==
    IF q = NoQuery \/ q = "" THEN SecurityError("Query is empty")
    ELSE LET normalized == Upper(Strip(q))
         IN  IF ~(StartsWith(normalized, "SELECT") \/ StartsWith(normalized, "WITH"))
             THEN SecurityError("Only read-only SELECT queries are allowed")
             ELSE KeywordLoop(normalized, 1)

----------------------------------------------------------------------------
(* Result tables *)

\* a DataFrame: column labels, column dtypes, rows of values
Table(c, d, r) == [cols |-> c, dtypes |-> d, rows |-> r]

\* self.answer_df = None after construction
NoneDf == Table(<<"<None>">>, <<>>, <<>>)

Range(f) == {f[i] : i \in DOMAIN f}

----------------------------------------------------------------------------
(* The store: the SQLite database read through pd.read_sql_query *)

\* the generated table t(a, b), as rows; dropped when exists is FALSE
StoreOf(e, r) == [exists |-> e, rows |-> r]

StoreCols == <<"a", "b">>

\* the database a validator can find: not generated yet, or generated
StoreStates == {StoreOf(FALSE, <<>>), StoreOf(TRUE, <<<<2, 1>>, <<1, 2>>>>)}

\* the positions of the character sep in s
Seps(s, sep) == {i \in 1..Len(s) : Char(s, i) = sep}

\* the k-th smallest member of the set P of numbers
Nth(P, k) == CHOOSE i \in P : Cardinality({j \in P : j < i}) = k - 1

\* the pieces of s between occurrences of the character sep
SplitOn(s, sep) ==
    LET P == Seps(s, sep)
        n == Cardinality(P)
        from(k) == IF k = 1 THEN 1 ELSE Nth(P, k - 1) + 1
        to(k) == IF k = n + 1 THEN Len(s) ELSE Nth(P, k) - 1
    IN  [k \in 1..(n + 1) |-> SubSeq(s, from(k), to(k))]

\* the text before a "--" comment
BeforeComment(s) ==
    LET C == {i \in 1..(Len(s) - 1) : SubSeq(s, i, i + 1) = "--"}
    IN  IF C = {} THEN s ELSE SubSeq(s, 1, Min(C) - 1)

\* the statements of a text, as the store's parser sees them: separated by
\* ";", comments and blank statements dropped, keywords case-insensitive
Statements(q) ==
    LET parts == SplitOn(BeforeComment(q), ";")
        norm == [i \in DOMAIN parts |-> Upper(Strip(parts[i]))]
    IN  SelectSeq(norm, LAMBDA p : p # "")

\* exc: "" when rows came back, else the exception pandas raises
StoreResult(exc, m, df, st) == [exc |-> exc, msg |-> m, df |-> df, store |-> st]

\* pandas wraps every failure of cursor.execute in pandas.errors.DatabaseError
ExecutionFailed(m, st) == StoreResult("pandas.DatabaseError", m, NoneDf, st)

\* a statement that returns no rows leaves cursor.description None
NoRows(st) == StoreResult("TypeError", "'NoneType' object is not iterable", NoneDf, st)

\* One statement run by the store on the table st.  The store knows the
\* statements below; every other text is malformed SQL to it.  DROP TABLE
\* takes effect at once; DELETE stays in a transaction that is never committed.
RunStatement(s, st) ==
    IF s \in {"SELECT * FROM T", "SELECT A, B FROM T"} THEN
        IF st.exists
        THEN StoreResult("", "", Table(StoreCols, <<"int64", "int64">>, st.rows), st)
        ELSE ExecutionFailed("no such table: t", st)
    ELSE IF s = "SELECT B, A FROM T" THEN
        IF st.exists
        THEN StoreResult("", "",
                 Table(<<"b", "a">>, <<"int64", "int64">>,
                       [i \in DOMAIN st.rows |-> <<st.rows[i][2], st.rows[i][1]>>]), st)
        ELSE ExecutionFailed("no such table: t", st)
    ELSE IF s = "WITH X AS (SELECT 1) SELECT * FROM X" THEN
        StoreResult("", "", Table(<<"1">>, <<"int64">>, <<<<1>>>>), st)
    ELSE IF s = "SELECT 1" THEN
        StoreResult("", "", Table(<<"1">>, <<"int64">>, <<<<1>>>>), st)
    ELSE IF s = "SELECT 2" THEN
        StoreResult("", "", Table(<<"2">>, <<"int64">>, <<<<2>>>>), st)
    ELSE IF s \in {"SELECT NOPE FROM T", "SELECT UPDATED FROM T"} THEN
        IF st.exists
        THEN ExecutionFailed("no such column", st)
        ELSE ExecutionFailed("no such table: t", st)
    ELSE IF s = "DROP TABLE T" THEN
        IF st.exists
        THEN NoRows(StoreOf(FALSE, <<>>))
        ELSE ExecutionFailed("no such table: t", st)
    ELSE IF s = "DELETE FROM T" THEN
        IF st.exists
        THEN NoRows(st)
        ELSE ExecutionFailed("no such table: t", st)
    ELSE ExecutionFailed("syntax error", st)

\* pd.read_sql_query(self.query, conn): the store takes one statement per call
StoreRun(q, st) ==
    LET stmts == Statements(q)
    IN  IF Len(stmts) > 1
        THEN ExecutionFailed("You can only execute one statement at a time.", st)
        ELSE IF Len(stmts) = 0
             THEN NoRows(st)
             ELSE RunStatement(stmts[1], st)

----------------------------------------------------------------------------
(* The result comparator *)

\* row r1 sorts before row r2 under sort_values(by = all columns)
RowLess(r1, r2) ==
    \E k \in 1..Len(r1) :
        /\ k <= Len(r2)
        /\ r1[k] < r2[k]
        /\ \A j \in 1..(k - 1) : r1[j] = r2[j]

RECURSIVE InsertRow(_, _)
InsertRow(r, sorted) ==
    IF sorted = <<>> THEN <<r>>
    ELSE IF RowLess(r, Head(sorted)) THEN <<r>> \o sorted
         ELSE <<Head(sorted)>> \o InsertRow(r, Tail(sorted))

RECURSIVE SortRows(_)
SortRows(rows) ==
    IF rows = <<>> THEN <<>> ELSE InsertRow(Head(rows), SortRows(Tail(rows)))

\* mutant: the rows are compared in the order they came
KeepOrder(df) == df

\* df.sort_values(by=list(df.columns)).reset_index(drop=True)
sort_values(df) == Table(df.cols, df.dtypes, SortRows(df.rows))

\* DataFrame.equals: same labels, same dtypes, same values
Equals(a, b) == a.cols = b.cols /\ a.dtypes = b.dtypes /\ a.rows = b.rows

\* (df1_sorted == df2_sorted).all(axis=1): per row, every value equal
Matches(a, b) == [i \in DOMAIN a.rows |-> a.rows[i] = b.rows[i]]

\* the positions of the rows that do not match
Mismatched(a, b) == {i \in DOMAIN a.rows : ~Matches(a, b)[i]}

Compared(res, rc, so, mm) ==
    [ran |-> TRUE, result |-> res, row_count |-> rc, sorted |-> so, mismatched |-> mm]

NotCompared == [ran |-> FALSE, result |-> FALSE, row_count |-> <<>>, sorted |-> FALSE,
                mismatched |-> {}]

\* d1 is the generated answer, d2 the expected solution.  row_count is the
\* pair the "Row count mismatch" log line prints.
_compare_dataframes(d1, d2) ==
    IF Len(d1.rows) # Len(d2.rows)
    THEN Compared(FALSE, <<Len(d1.rows), Len(d2.rows)>>, FALSE, {})
    ELSE LET df1_sorted == sort_values(d1)
             df2_sorted == sort_values(d2)
         IN  IF ~Equals(df1_sorted, df2_sorted)
             THEN Compared(FALSE, <<>>, TRUE, Mismatched(df1_sorted, df2_sorted))
             ELSE Compared(TRUE, <<>>, TRUE, {})

SymDiff(A, B) == (A \ B) \cup (B \ A)

StructureOk == [ok |-> TRUE, column_diff |-> {}]
ValidationError(d) == [ok |-> FALSE, column_diff |-> d]

\* mutant: the column labels are compared as sets
StructureBySet(d1, d2) ==
    IF Range(d1.cols) # Range(d2.cols)
    THEN ValidationError(SymDiff(Range(d1.cols), Range(d2.cols)))
    ELSE StructureOk

\* a dtype mismatch only logs a warning
_validate_dataframe_structure(d1, d2) ==
    IF d1.cols # d2.cols
    THEN ValidationError(SymDiff(Range(d1.cols), Range(d2.cols)))
    ELSE StructureOk

ReportLine(k, c, x, y) == [kind |-> k, col |-> c, x |-> x, y |-> y]
Reported(r, l) == [ran |-> TRUE, raised |-> r, lines |-> l]
NotReported == [ran |-> FALSE, raised |-> "", lines |-> <<>>]

\* (df1[column] != df2[column]).sum()
ColumnDiff(d1, d2, c) ==
    LET i1 == CHOOSE i \in DOMAIN d1.cols : d1.cols[i] = c
        i2 == CHOOSE i \in DOMAIN d2.cols : d2.cols[i] = c
    IN  Cardinality({r \in DOMAIN d1.rows : d1.rows[r][i1] # d2.rows[r][i2]})

RECURSIVE ValueLines(_, _, _)
\* the loop over df1.columns, from column k on: a column df2 lacks raises
\* KeyError, two columns of different lengths raise ValueError
ValueLines(d1, d2, k) ==
    IF k > Len(d1.cols) THEN Reported("", <<>>)
    ELSE IF d1.cols[k] \notin Range(d2.cols) THEN Reported("KeyError", <<>>)
    ELSE IF Len(d1.rows) # Len(d2.rows) THEN Reported("ValueError", <<>>)
    ELSE LET rest == ValueLines(d1, d2, k + 1)
             n == ColumnDiff(d1, d2, d1.cols[k])
         IN  IF rest.raised # "" THEN rest
             ELSE Reported("", (IF n > 0 THEN <<ReportLine("values", d1.cols[k], n, 0)>>
                                ELSE <<>>) \o rest.lines)

generate_detailed_report(d1, d2) ==
    LET diff_columns == SymDiff(Range(d1.cols), Range(d2.cols))
        head == (IF diff_columns # {}
                 THEN <<ReportLine("columns", "", Cardinality(diff_columns), 0)>>
                 ELSE <<>>)
                \o (IF Len(d1.rows) # Len(d2.rows)
                    THEN <<ReportLine("rows", "", Len(d1.rows), Len(d2.rows))>>
                    ELSE <<>>)
        values == ValueLines(d1, d2, 1)
    IN  IF values.raised # "" THEN Reported(values.raised, <<>>)
        ELSE Reported("", head \o values.lines)

----------------------------------------------------------------------------
(* Configuration documents: what yaml.safe_load returns *)

\* a Python literal: its type and its value
Lit(ty, i, s) == [ty |-> ty, i |-> i, s |-> s]
IntLit(n) == Lit("int", n, "")
StrLit(s) == Lit("str", 0, s)
BoolLit(b) == Lit("bool", IF b THEN 1 ELSE 0, "")
NoLit == Lit("none", 0, "")

\* field['values']: a mapping with some of the keys min and max, or a list
Values(tag, has, lo, hi, items) ==
    [tag |-> tag, has |-> has, min |-> lo, max |-> hi, items |-> items]
MinMax(lo, hi) == Values("object", {"min", "max"}, lo, hi, <<>>)
OnlyMin(lo) == Values("object", {"min"}, lo, NoLit, <<>>)
Array(items) == Values("array", {}, NoLit, NoLit, items)

\* one entry of config['fields']: a mapping with some of the keys
FieldEntry(has, n, t, v) == [has |-> has, name |-> n, type |-> t, values |-> v]
Field(n, t, v) == FieldEntry({"name", "type", "values"}, n, t, v)

\* config['data_generation']
Section(has, n, sd, t) == [has |-> has, num_records |-> n, seed |-> sd, table_name |-> t]
DataGeneration(n, sd, t) == Section({"num_records", "seed", "table_name"}, n, sd, t)
EmptySection == Section({}, 0, 0, "")

\* a document: kind is "missing" (no such file), "unparsable" (not YAML),
\* "scalar" (YAML that is no mapping) or "mapping"
Document(kind, keys, dg, fields) ==
    [kind |-> kind, keys |-> keys, data_generation |-> dg, fields |-> fields]
Config(dg, fields) == Document("mapping", {"data_generation", "fields"}, dg, fields)

\* no config attribute: load_yaml_config has not assigned one
NoConfig == Document("unset", {}, EmptySection, <<>>)

----------------------------------------------------------------------------
(* The config validator: DataGenerator._validate_config and CONFIG_SCHEMA *)

MaxNumRecords == 10000000

Accepted == [exc |-> "", msg |-> ""]
Rejected(exc, m) == [exc |-> exc, msg |-> m]

field_types == {"int", "str", "bool"}

\* {"type": "integer"}: a Python bool is no integer to jsonschema
IsInteger(l) == l.ty = "int"

\* the three alternatives of "values", in the order of the schema
ValuesSchemas(v) ==
    <<v.tag = "object" /\ {"min", "max"} \subseteq v.has
          /\ IsInteger(v.min) /\ IsInteger(v.max),
      v.tag = "array" /\ \A i \in DOMAIN v.items : v.items[i].ty = "str",
      v.tag = "array" /\ \A i \in DOMAIN v.items : v.items[i].ty = "bool">>

\* oneOf: exactly one alternative holds
OneOf(alts) == Cardinality({k \in DOMAIN alts : alts[k]}) = 1

\* the schema of one item of "fields"
FieldSchema(f) ==
    /\ {"name", "type", "values"} \subseteq f.has
    /\ f.type \in field_types
    /\ OneOf(ValuesSchemas(f.values))

\* the schema of "data_generation"
SectionSchema(dg) ==
    /\ {"num_records", "seed", "table_name"} \subseteq dg.has
    /\ dg.num_records >= 1 /\ dg.num_records <= MaxNumRecords
    /\ dg.seed >= 0

CONFIG_SCHEMA(config) ==
    /\ config.kind = "mapping"
    /\ {"data_generation", "fields"} \subseteq config.keys
    /\ SectionSchema(config.data_generation)
    /\ Len(config.fields) >= 1
    /\ \A i \in DOMAIN config.fields : FieldSchema(config.fields[i])

\* schemas.validate_config: a jsonschema ValidationError becomes ValueError
validate_config(config) ==
    IF CONFIG_SCHEMA(config) THEN Accepted
    ELSE Rejected("ValueError", "Invalid config.yml")

RECURSIVE FieldLoop(_, _)
\* for field in config['fields'], from entry k on
FieldLoop(fields, k) ==
    IF k > Len(fields) THEN Accepted
    ELSE IF ~({"name", "type", "values"} \subseteq fields[k].has)
    THEN Rejected("ValidationError", "Each field must have 'name', 'type', and 'values' keys")
    ELSE IF fields[k].type \notin field_types
    THEN Rejected("ValidationError", "Field type must be 'int', 'str', or 'bool'")
    ELSE FieldLoop(fields, k + 1)

_validate_config(config) ==
    IF config.kind # "mapping"
    THEN Rejected("ValidationError", "Config must be a dictionary")
    ELSE IF "data_generation" \notin config.keys
    THEN Rejected("ValidationError", "Config must contain 'data_generation' key")
    ELSE IF "fields" \notin config.keys
    THEN Rejected("ValidationError", "Config must contain 'fields' key")
    ELSE IF Len(config.fields) = 0
    THEN Rejected("ValidationError", "'fields' must be a non-empty list")
    ELSE IF FieldLoop(config.fields, 1).exc # ""
    THEN FieldLoop(config.fields, 1)
    ELSE IF validate_config(config).exc # ""
    THEN Rejected("ConfigurationError", "Configuration validation failed: Invalid config.yml")
    ELSE Accepted

\* _validate_num_records: not isinstance(num_records, int) or out of 1..10,000,000
_validate_num_records(n) ==
    IF ~IsInteger(n) \/ n.i < 1 \/ n.i > MaxNumRecords
    THEN Rejected("ValidationError", "num_records must be an integer between 1 and 10,000,000")
    ELSE Accepted

----------------------------------------------------------------------------
(* The process-wide random generator: module random *)

\* the top two bits of the successive 32-bit outputs of the Mersenne Twister
\* after random.seed(seed)
Stream(sd) ==
    CASE sd = 0 ->
           <<3, 1, 3, 3, 1, 0, 1, 3, 2, 1, 1, 3, 3, 3, 1, 3, 1, 1, 2, 3, 3, 0, 2, 0,
             1, 0, 3, 0, 2, 3, 1, 3, 3, 2, 3, 2, 3, 2, 3, 0, 1, 0, 2, 0, 3, 3, 2, 1,
             1, 2, 0, 1, 1, 1, 2, 2, 3, 0, 3, 2, 1, 1, 3, 2, 1, 0, 3, 3, 2, 3, 0, 0,
             2, 3, 1, 2, 3, 3, 2, 2, 0, 2, 1, 3, 3, 1, 0, 2, 1, 2, 3, 0, 0, 3, 2, 0,
             0, 3, 3, 0, 3, 2, 1, 0, 0, 3, 1, 3, 2, 3, 3, 1, 0, 1, 2, 1, 2, 0, 2, 1>>
      [] sd = 1 ->
           <<0, 2, 3, 3, 3, 0, 1, 0, 1, 3, 1, 1, 2, 1, 3, 0, 0, 1, 0, 3, 3, 1, 1, 2,
             3, 3, 0, 2, 1, 1, 2, 3, 0, 2, 3, 0, 3, 1, 0, 0, 0, 2, 2, 0, 3, 3, 1, 2,
             0, 3, 1, 2, 0, 2, 0, 3, 1, 3, 1, 2, 0, 1, 0, 2, 0, 3, 1, 3, 1, 3, 0, 1,
             3, 3, 2, 3, 2, 0, 0, 2, 3, 2, 3, 1, 0, 2, 1, 3, 2, 3, 2, 2, 3, 3, 1, 2,
             3, 3, 2, 0, 1, 1, 2, 3, 3, 1, 3, 3, 2, 1, 2, 3, 0, 1, 0, 2, 3, 1, 1, 2>>
      [] sd = 2 ->
           <<3, 3, 3, 3, 0, 0, 0, 1, 3, 0, 2, 3, 2, 3, 1, 1, 2, 0, 2, 0, 2, 2, 0, 3,
             1, 2, 1, 3, 2, 3, 3, 2, 3, 1, 2, 3, 1, 2, 1, 3, 0, 3, 0, 1, 1, 3, 1, 3,
             1, 1, 3, 3, 2, 0, 2, 0, 0, 0, 0, 0, 1, 0, 0, 2, 2, 1, 3, 2, 2, 2, 0, 3,
             3, 1, 3, 1, 2, 2, 3, 3, 3, 1, 3, 2, 1, 1, 3, 3, 3, 1, 0, 3, 3, 1, 2, 2,
             1, 2, 2, 0, 1, 1, 3, 1, 2, 2, 3, 3, 1, 2, 3, 1, 3, 3, 1, 1, 2, 2, 3, 2>>
      [] sd = 42 ->
           <<2, 0, 0, 2, 1, 0, 0, 0, 2, 0, 2, 2, 3, 2, 0, 2, 1, 0, 0, 0, 0, 0, 2, 2,
             0, 2, 0, 2, 2, 2, 2, 1, 0, 1, 2, 1, 3, 3, 0, 3, 3, 0, 2, 1, 1, 1, 0, 0,
             3, 3, 1, 0, 0, 1, 0, 1, 3, 1, 2, 1, 3, 0, 2, 1, 2, 0, 3, 3, 1, 0, 2, 1,
             3, 2, 2, 3, 3, 1, 2, 0, 2, 0, 0, 2, 0, 3, 1, 3, 0, 3, 0, 3, 0, 1, 1, 1,
             2, 3, 1, 0, 1, 1, 0, 2, 1, 2, 3, 2, 2, 0, 2, 2, 0, 2, 2, 0, 0, 1, 1, 1>>

\* the generator after random.seed(seed) and pos outputs
Rng(sd, pos) == [seed |-> sd, pos |-> pos]

\* random.seed(sd)
random_seed(sd) == Rng(sd, 0)

\* n.bit_length(), for the lengths the model draws from
bit_length(n) == IF n = 1 THEN 1 ELSE 2

\* getrandbits(k), k <= 2: the top k bits of the next output
getrandbits(k, r) == Stream(r.seed)[r.pos + 1] \div (IF k = 1 THEN 2 ELSE 1)

Drawn(v, r) == [value |-> v, rng |-> r]

RECURSIVE _randbelow(_, _)
\* r = getrandbits(k); while r >= n: r = getrandbits(k)
_randbelow(n, r) ==
    LET x == getrandbits(bit_length(n), r)
        next == Rng(r.seed, r.pos + 1)
    IN  IF x >= n THEN _randbelow(n, next) ELSE Drawn(x, next)

----------------------------------------------------------------------------
(* The record synthesizer: generate_random_record and generate_records *)

\* record[field_name] = value: a dict keeps the place of a key it has
Pair(n, v) == [name |-> n, value |-> v]
SetItem(record, n, v) ==
    IF \E i \in DOMAIN record : record[i].name = n
    THEN [i \in DOMAIN record |-> IF record[i].name = n THEN Pair(n, v) ELSE record[i]]
    ELSE Append(record, Pair(n, v))

\* how a synthesis step ends: exc is "" or the exception raised
Synthesized(exc, out, r) == [exc |-> exc, out |-> out, rng |-> r]

\* mutant: the range runs one past max
RangeListPastMax(lo, hi) == [i \in 1..(hi + 2 - lo) |-> IntLit(lo + i - 1)]

\* range(lo, hi + 1), as the list of its members
RangeList(lo, hi) == [i \in 1..(hi + 1 - lo) |-> IntLit(lo + i - 1)]

\* the value drawn for one field, with value the local left by the fields before
FieldValue(f, value, r) ==
    IF f.type = "int" THEN
        IF f.values.tag # "object" THEN Synthesized("TypeError", NoLit, r)
        ELSE IF ~({"min", "max"} \subseteq f.values.has) THEN Synthesized("KeyError", NoLit, r)
        ELSE IF ~(IsInteger(f.values.min) /\ IsInteger(f.values.max))
        THEN Synthesized("TypeError", NoLit, r)
        ELSE IF f.values.max.i + 1 <= f.values.min.i
        THEN Synthesized("IndexError", NoLit, r)
        ELSE LET seq == RangeList(f.values.min.i, f.values.max.i)
                 d == _randbelow(Len(seq), r)
             IN  Synthesized("", seq[d.value + 1], d.rng)
    ELSE IF f.type = "str" THEN
        IF f.values.tag = "object"
        THEN IF f.values.has = {} THEN Synthesized("IndexError", NoLit, r)
             ELSE Synthesized("KeyError", NoLit, _randbelow(Cardinality(f.values.has), r).rng)
        ELSE IF f.values.items = <<>> THEN Synthesized("IndexError", NoLit, r)
        ELSE LET d == _randbelow(Len(f.values.items), r)
             IN  Synthesized("", f.values.items[d.value + 1], d.rng)
    ELSE IF f.type = "bool" THEN
        LET d == _randbelow(2, r)
        IN  Synthesized("", <<BoolLit(TRUE), BoolLit(FALSE)>>[d.value + 1], d.rng)
    ELSE IF value = NoLit THEN Synthesized("UnboundLocalError", NoLit, r)
    ELSE Synthesized("", value, r)

RECURSIVE RecordLoop(_, _, _, _, _)
\* for field in self.config['fields'], from entry k on
RecordLoop(fields, k, record, value, r) ==
    IF k > Len(fields) THEN Synthesized("", record, r)
    ELSE IF ~({"name", "type", "values"} \subseteq fields[k].has)
    THEN Synthesized("KeyError", record, r)
    ELSE LET v == FieldValue(fields[k], value, r)
         IN  IF v.exc # "" THEN Synthesized(v.exc, record, v.rng)
             ELSE RecordLoop(fields, k + 1, SetItem(record, fields[k].name, v.out),
                             v.out, v.rng)

generate_random_record(config, r) ==
    IF config.kind = "unset" THEN Synthesized("AttributeError", <<>>, r)
    ELSE IF config.kind # "mapping" THEN Synthesized("TypeError", <<>>, r)
    ELSE IF "fields" \notin config.keys THEN Synthesized("KeyError", <<>>, r)
    ELSE RecordLoop(config.fields, 1, <<>>, NoLit, r)

RECURSIVE RecordsLoop(_, _, _, _)
\* while len(records) < self.num_records: records.append(...)
RecordsLoop(config, num_records, records, r) ==
    IF Len(records) >= num_records THEN Synthesized("", records, r)
    ELSE LET rec == generate_random_record(config, r)
         IN  IF rec.exc # "" THEN Synthesized(rec.exc, records, rec.rng)
             ELSE RecordsLoop(config, num_records, Append(records, rec.out), rec.rng)

\* records = self.sample_data.copy() if self.sample_data else []
generate_records(config, sample_data, num_records, r) ==
    RecordsLoop(config, num_records, sample_data, r)

----------------------------------------------------------------------------
(* DataGenerator objects and the table they write *)

\* a DataGenerator: generated tells self.records is a DataFrame and no longer
\* the list of __init__; conn is self.conn
Gen(alive, config, asked, num_records, sample_data, records, generated, conn) ==
    [alive |-> alive, config |-> config, asked |-> asked, num_records |-> num_records,
     sample_data |-> sample_data, records |-> records, generated |-> generated,
     conn |-> conn]

\* no object: the constructor has not returned one
NoGen == Gen(FALSE, NoConfig, NoLit, 0, <<>>, <<>>, FALSE, "none")

Generators == {1, 2}

\* one value of a record as SQLite keeps it: text, or an integer (a bool is 0 or 1)
ToCell(l) == IF l.ty = "str" THEN l.s ELSE l.i

\* the rows to_sql writes for a dataset (the dataset's records name the
\* columns of the table)
ToRows(records) ==
    [k \in DOMAIN records |-> [i \in DOMAIN records[k] |-> ToCell(records[k][i].value)]]

\* the steps of DataFrame.to_sql(table_name, conn, if_exists='replace'), each
\* its own statement on the store: DROP TABLE and CREATE TABLE take effect at
\* once, the INSERTs are one transaction
Stored(exc, st) == [exc |-> exc, store |-> st]

has_table(st) == st.exists

drop_table(st) ==
    IF st.exists THEN Stored("", StoreOf(FALSE, <<>>))
    ELSE Stored("pandas.DatabaseError", st)

create_table(st) ==
    IF st.exists THEN Stored("pandas.DatabaseError", st)
    ELSE Stored("", StoreOf(TRUE, <<>>))

\* insertOK: the INSERTs go through; if not, the transaction is rolled back
insert(st, rows, insertOK) ==
    IF ~st.exists THEN Stored("sqlite3.Error", st)
    ELSE IF ~insertOK THEN Stored("sqlite3.Error", st)
    ELSE Stored("", StoreOf(TRUE, rows))

\* to_sql with nothing else touching the store
to_sql(st, rows, insertOK) ==
    LET dropped == IF has_table(st) THEN drop_table(st).store ELSE st
        created == create_table(dropped).store
    IN  insert(created, rows, insertOK)

\* a web session: where it stands in the Submit handler, what has_table told
\* its to_sql, and what its execute_query returned
Session(pc, exists, answer) == [pc |-> pc, exists |-> exists, answer |-> answer]
NoAnswer == [ran |-> FALSE, outcome |-> "", df |-> NoneDf]
Answer(o, df) == [ran |-> TRUE, outcome |-> o, df |-> df]

Sessions == {1, 2}

\* no generator yet; the random generator as the interpreter started it (every
\* DataGenerator seeds it before it is read)
InitGenerators ==
    /\ rng = Rng(0, 0)
    /\ gens = [g \in Generators |-> NoGen]
    /\ sess = [s \in Sessions |-> Session("idle", FALSE, NoAnswer)]

----------------------------------------------------------------------------
(* Difficulty levels: infra/difficulty.py *)

\* DifficultyLevel, in the order of its values 1..4
level_order == <<"BEGINNER", "INTERMEDIATE", "ADVANCED", "EXPERT">>
DifficultyLevel == Range(level_order)
NoLevel == "None"

\* DifficultyConfig; the scoring multipliers 1.0, 2.0, 3.0 and 5.0 are whole,
\* so every term of a score is a whole number and int() leaves it as it is
DifficultyConfig(limit, hints, mult, prereq, penalty, threshold) ==
    [time_limit_seconds |-> limit, hint_count |-> hints, scoring_multiplier |-> mult,
     prerequisite_level |-> prereq, hint_penalty_points |-> penalty,
     time_bonus_threshold |-> threshold]

DIFFICULTY_CONFIGS ==
    [l \in DifficultyLevel |->
        CASE l = "BEGINNER" -> DifficultyConfig(300, 5, 1, NoLevel, 5, 180)
          [] l = "INTERMEDIATE" -> DifficultyConfig(600, 3, 2, "BEGINNER", 10, 360)
          [] l = "ADVANCED" -> DifficultyConfig(900, 2, 3, "INTERMEDIATE", 15, 540)
          [] l = "EXPERT" -> DifficultyConfig(1800, 1, 5, "ADVANCED", 25, 900)]

get_config(level) == DIFFICULTY_CONFIGS[level]

\* mutant: any completed level opens the level
ProgressionByAnyLevel(current_level, completed_levels) ==
    LET config == get_config(current_level)
    IN  IF config.prerequisite_level = NoLevel THEN TRUE
        ELSE completed_levels # {}

\* validate_progression(current_level, completed_levels)
validate_progression(current_level, completed_levels) ==
    LET config == get_config(current_level)
    IN  IF config.prerequisite_level = NoLevel THEN TRUE
        ELSE config.prerequisite_level \in completed_levels

\* get_next_level(current_level)
get_next_level(current_level) ==
    LET current_index == CHOOSE i \in DOMAIN level_order : level_order[i] = current_level
    IN  IF current_index < Len(level_order) THEN level_order[current_index + 1] ELSE NoLevel

\* mutant: the score is not cut at 0
ScoreBelowZero(level, time_taken, hints_used, is_correct) ==
    LET config == get_config(level)
    IN  IF ~is_correct THEN 0
        ELSE 100 * config.scoring_multiplier - hints_used * config.hint_penalty_points
             + (IF time_taken <= config.time_bonus_threshold THEN 50 ELSE 0)

\* calculate_score(level, time_taken, hints_used, is_correct)
calculate_score(level, time_taken, hints_used, is_correct) ==
    LET config == get_config(level)
        base_score == 100 * config.scoring_multiplier
        hint_penalty == hints_used * config.hint_penalty_points
        time_bonus == IF config.time_bonus_threshold # 0
                         /\ time_taken <= config.time_bonus_threshold
                      THEN 50 ELSE 0
        final_score == base_score - hint_penalty + time_bonus
    IN  IF ~is_correct THEN 0
        ELSE IF final_score > 0 THEN final_score ELSE 0

\* a call of a DifficultyManager method: its arguments and what it returned
Called(fn, level, completed, time_taken, hints_used, is_correct, allowed, next, score) ==
    [fn |-> fn, level |-> level, completed_levels |-> completed, time_taken |-> time_taken,
     hints_used |-> hints_used, is_correct |-> is_correct, allowed |-> allowed,
     next |-> next, score |-> score]
NotCalled == Called("", NoLevel, {}, 0, 0, FALSE, FALSE, NoLevel, 0)

----------------------------------------------------------------------------
(* Hints: infra/ai/hint_system.py *)

\* HintLevel and its values
HintLevel == [SUBTLE |-> 1, MODERATE |-> 2, EXPLICIT |-> 3]

\* a Hint; generated: its content came from the LLM client, not the fallback
Hint(level, generated, penalty_points, question_name) ==
    [level |-> level, generated |-> generated, penalty_points |-> penalty_points,
     question_name |-> question_name]
NoHint == Hint("", FALSE, 0, "")

\* a ProgressiveHintSystem
HintSystem(alive, difficulty_level, question_name, hints_used) ==
    [alive |-> alive, difficulty_level |-> difficulty_level,
     question_name |-> question_name, hints_used |-> hints_used]
NoHintSystem == HintSystem(FALSE, "BEGINNER", "", <<>>)

\* ProgressiveHintSystem(llm_client, difficulty_level, question_name)
ProgressiveHintSystem(difficulty_level, question_name) ==
    HintSystem(TRUE, difficulty_level, question_name, <<>>)

get_hints_remaining(self) ==
    get_config(self.difficulty_level).hint_count - Len(self.hints_used)

\* mutant: the last hint is told by > instead of >=
LevelPastMax(self, hint_number) ==
    IF hint_number = 1 THEN "SUBTLE"
    ELSE IF hint_number > get_config(self.difficulty_level).hint_count THEN "EXPLICIT"
    ELSE "MODERATE"

_determine_hint_level(self, hint_number) ==
    LET max_hints == get_config(self.difficulty_level).hint_count
    IN  IF hint_number = 1 THEN "SUBTLE"
        ELSE IF hint_number >= max_hints THEN "EXPLICIT"
        ELSE "MODERATE"

\* what get_next_hint returns or raises, and the hint system it leaves
Hinted(exc, self, hint) == [exc |-> exc, self |-> self, hint |-> hint]

\* mutant: the hint is recorded before the remaining hints are counted
HintBeforeCheck(self, llmOK) ==
    LET hint == Hint(_determine_hint_level(self, Len(self.hints_used) + 1), llmOK,
                     get_config(self.difficulty_level).hint_penalty_points,
                     self.question_name)
        used == [self EXCEPT !.hints_used = Append(@, hint)]
    IN  IF get_hints_remaining(used) <= 0 THEN Hinted("ValueError", used, NoHint)
        ELSE Hinted("", used, hint)

\* get_next_hint; llmOK: the LLM client returns a text (if it raises, the
\* fallback text of the level is used)
get_next_hint(self, llmOK) ==
    LET hint_number == Len(self.hints_used) + 1
        hint == Hint(_determine_hint_level(self, hint_number), llmOK,
                     get_config(self.difficulty_level).hint_penalty_points,
                     self.question_name)
    IN  IF get_hints_remaining(self) <= 0 THEN Hinted("ValueError", self, NoHint)
        ELSE Hinted("", [self EXCEPT !.hints_used = Append(@, hint)], hint)

RECURSIVE SumPenalty(_, _)
SumPenalty(hints, k) ==
    IF k > Len(hints) THEN 0 ELSE hints[k].penalty_points + SumPenalty(hints, k + 1)

calculate_total_penalty(self) == SumPenalty(self.hints_used, 1)

\* reset()
reset(self) == [self EXCEPT !.hints_used = <<>>]

\* the question names of the model
QuestionNames == {"q1", "q2"}

\* a HintManager: hint_systems holds a system that is not alive for a
\* question name that is no key of the dict
Manager(hint_systems, global_hints_used) ==
    [hint_systems |-> hint_systems, global_hints_used |-> global_hints_used]

\* HintManager()
HintManager == Manager([q \in QuestionNames |-> NoHintSystem], 0)

get_hint_system(self, question_name, difficulty_level) ==
    IF ~self.hint_systems[question_name].alive
    THEN [self EXCEPT !.hint_systems[question_name] =
                          ProgressiveHintSystem(difficulty_level, question_name)]
    ELSE self

Requested(exc, self, hint) == [exc |-> exc, self |-> self, hint |-> hint]

\* request_hint: a ValueError of get_next_hint leaves before the count
request_hint(self, question_name, difficulty_level, llmOK) ==
    LET got == get_hint_system(self, question_name, difficulty_level)
        h == get_next_hint(got.hint_systems[question_name], llmOK)
    IN  IF h.exc # "" THEN Requested(h.exc, got, NoHint)
        ELSE Requested("", [got EXCEPT !.hint_systems[question_name] = h.self,
                                       !.global_hints_used = @ + 1], h.hint)

reset_question(self, question_name) ==
    IF self.hint_systems[question_name].alive
    THEN [self EXCEPT !.hint_systems[question_name] = reset(@)]
    ELSE self

reset_all(self) == HintManager

----------------------------------------------------------------------------
(* User progress: infra/user.py *)

NoQuestion == "<None>"

Statistics(total, correct) == [total_attempts |-> total, correct_attempts |-> correct]

\* self.progress; attempts holds, per question, is_correct of each recorded
\* attempt (a question with no attempt is no key of the dict)
Progress(completed_questions, completed_levels, attempts, current_question,
         total_score, statistics) ==
    [completed_questions |-> completed_questions, completed_levels |-> completed_levels,
     attempts |-> attempts, current_question |-> current_question,
     total_score |-> total_score, statistics |-> statistics]

\* the progress load_progress returns when there is no file
NewProgress ==
    Progress(<<>>, <<>>, [q \in QuestionNames |-> <<>>], NoQuestion, 0, Statistics(0, 0))

\* the progress file: json.dump writes, and json.load reads back, a dict of
\* strings, lists, numbers, booleans and None as it is
File(exists, content) == [exists |-> exists, content |-> content]
NoFile == File(FALSE, NewProgress)

load_progress(file) == IF file.exists THEN file.content ELSE NewProgress

save_progress(progress) == File(TRUE, progress)

\* what a User method leaves: the exception, the progress, the file
Progressed(exc, progress, file) == [exc |-> exc, progress |-> progress, file |-> file]

Saved(progress) == Progressed("", progress, save_progress(progress))

\* mutant: the current question is set and not saved
StartWithoutSave(progress, file, question_name) ==
    Progressed("", [progress EXCEPT !.current_question = question_name], file)

start_question(progress, file, question_name) ==
    Saved([progress EXCEPT !.current_question = question_name])

Contains_(seq, x) == \E i \in DOMAIN seq : seq[i] = x

\* mutant: a correct attempt is appended to completed_questions every time
RecordWithDuplicates(progress, file, is_correct) ==
    LET q == progress.current_question
    IN  IF q \in {NoQuestion, ""} THEN Progressed("ValueError", progress, file)
        ELSE Saved([progress EXCEPT
                 !.attempts[q] = Append(@, is_correct),
                 !.statistics.total_attempts = @ + 1,
                 !.statistics.correct_attempts = IF is_correct THEN @ + 1 ELSE @,
                 !.completed_questions = IF is_correct THEN Append(@, q) ELSE @])

\* record_solution_attempt: not self.progress['current_question'] holds for
\* None and for ''
record_solution_attempt(progress, file, is_correct) ==
    LET q == progress.current_question
    IN  IF q \in {NoQuestion, ""} THEN Progressed("ValueError", progress, file)
        ELSE Saved([progress EXCEPT
                 !.attempts[q] = Append(@, is_correct),
                 !.statistics.total_attempts = @ + 1,
                 !.statistics.correct_attempts = IF is_correct THEN @ + 1 ELSE @,
                 !.completed_questions =
                     IF is_correct /\ ~Contains_(@, q) THEN Append(@, q) ELSE @])

update_score(progress, file, points) ==
    Saved([progress EXCEPT !.total_score = @ + points])

\* mark_level_completed: saved only when the level is new
mark_level_completed(progress, file, difficulty_level) ==
    IF ~Contains_(progress.completed_levels, difficulty_level)
    THEN Saved([progress EXCEPT !.completed_levels = Append(@, difficulty_level)])
    ELSE Progressed("", progress, file)

\* nothing of the learner's side has been built or called
InitLearner ==
    /\ calc = NotCalled
    /\ hs = NoHintSystem
    /\ mgr = HintManager
    /\ user = NewProgress
    /\ user_file = NoFile

----------------------------------------------------------------------------
(* Inputs *)

\* a submitted query: a statement and what is typed after it
Bases ==
    {"", "SELECT * FROM t", "select b, a from t",
     "WITH x AS (SELECT 1) SELECT * FROM x", "SELECT nope FROM t",
     "SELECT updated FROM t"}
Suffixes == {"", ";", "; drop table t", "; SELECT 2", " -- delete"}

\* the queries the gate's documentation and tests name
NamedQueries ==
    {"SELECT * FROM t", "WITH x AS (SELECT 1) SELECT * FROM x", "DELETE FROM t",
     "UPDATE t SET x=1", "DROP TABLE t", "SELECT 1; DROP TABLE t",
     "SELECT 1; SELECT 2", "SELECT * FROM t WHERE b = 'insert'"}

Queries == {b \o x : b \in Bases, x \in Suffixes} \cup NamedQueries

\* the contents of the solution .sql file, or no such file
\* db_filename names no file; db_filename is None (no example_solution.sql)
MissingFile == "<missing>"
NoFilename == "<None>"
SqlFiles == {MissingFile, NoFilename, " SELECT * FROM t;\n", "DELETE FROM employees;", "\n"}

\* the expected results a solution_df.csv can hold
EmptyFile == Table(<<"<empty>">>, <<>>, <<>>)
MissingCsv == Table(<<"<missing>">>, <<>>, <<>>)
SolutionFiles ==
    {MissingCsv, EmptyFile,
     Table(<<"a", "b">>, <<"int64", "int64">>, <<<<1, 2>>, <<2, 1>>>>),
     Table(<<"a", "b">>, <<"float64", "int64">>, <<<<1, 2>>, <<2, 1>>>>),
     Table(<<"a", "b">>, <<"int64", "int64">>, <<<<1, 2>>>>),
     Table(<<"b", "a">>, <<"int64", "int64">>, <<<<1, 2>>, <<2, 1>>>>),
     Table(<<"a", "c">>, <<"int64", "int64">>, <<<<1, 2>>, <<2, 1>>>>)}

----------------------------------------------------------------------------
(* AnswerValidator operations *)

Msg(t, n) == [text |-> t, names |-> n]
NoMsg == Msg("", {})

Verdict(st, m) == [stage |-> st, is_match |-> m]
NoVerdict == Verdict("none", FALSE)

\* what one call of execute_query does
Executed(o, m, tr, se, setDf, df, st, leak) ==
    [outcome |-> o, msg |-> m, trace |-> tr, sent |-> se, setDf |-> setDf,
     df |-> df, store |-> st, leaked |-> leak]

\* mutant: the connection is opened and the query run before the gate is asked
ExecuteUngated(q, st, connOK) ==
    LET r == StoreRun(q, st)
    IN  IF ~connOK
        THEN Executed("DatabaseError", Msg("unable to open database file", {}),
                      <<"connect_failed">>, NoQuery, FALSE, NoneDf, st, 0)
        ELSE IF r.exc # ""
        THEN Executed("DatabaseError", Msg(r.msg, {}), <<"connect", "execute">>,
                      q, FALSE, NoneDf, r.store, 1)
        ELSE IF ~_validate_query_safety(q).ok
        THEN Executed("SecurityError", Msg(_validate_query_safety(q).msg, {}),
                      <<"connect", "execute", "close", "gate">>, q, FALSE, NoneDf,
                      r.store, 0)
        ELSE Executed("ok", NoMsg, <<"connect", "execute", "close", "gate">>, q,
                      TRUE, r.df, r.store, 0)

\* mutant: a store error is swallowed and an empty table returned
ExecutePartial(q, st, connOK) ==
    LET gate == _validate_query_safety(q)
        r == StoreRun(q, st)
    IN  IF ~gate.ok
        THEN Executed("SecurityError", Msg(gate.msg, {}), <<"gate">>, NoQuery,
                      FALSE, NoneDf, st, 0)
        ELSE IF ~connOK
        THEN Executed("DatabaseError", Msg("unable to open database file", {}),
                      <<"gate", "connect_failed">>, NoQuery, FALSE, NoneDf, st, 0)
        ELSE IF r.exc # ""
        THEN Executed("ok", NoMsg, <<"gate", "connect", "execute", "close">>, q,
                      TRUE, Table(<<>>, <<>>, <<>>), r.store, 0)
        ELSE Executed("ok", NoMsg, <<"gate", "connect", "execute", "close">>, q,
                      TRUE, r.df, r.store, 0)

\* execute_query on query q and store st; connOK: sqlite3.connect succeeds.
\* SecurityError and TypeError are not caught and leave by the same path.
ExecuteCall(q, st, connOK) ==
    LET gate == _validate_query_safety(q)
        r == StoreRun(q, st)
    IN  IF ~gate.ok
        THEN Executed("SecurityError", Msg(gate.msg, {}), <<"gate">>, NoQuery,
                      FALSE, NoneDf, st, 0)
        ELSE IF ~connOK
        THEN Executed("DatabaseError",
                      Msg("Database error executing query: unable to open database file", {}),
                      <<"gate", "connect_failed">>, NoQuery, FALSE, NoneDf, st, 0)
        ELSE IF r.exc = "pandas.DatabaseError"
        THEN Executed("DatabaseError", Msg("Pandas database error: " \o r.msg, {}),
                      <<"gate", "connect", "execute">>, q, FALSE, NoneDf, r.store, 1)
        ELSE IF r.exc # ""
        THEN Executed(r.exc, Msg(r.msg, {}), <<"gate", "connect", "execute">>, q,
                      FALSE, NoneDf, r.store, 1)
        ELSE Executed("ok", NoMsg, <<"gate", "connect", "execute", "close">>, q,
                      TRUE, r.df, r.store, 0)

\* what one call of validate_answer does
Validated(o, m, v) == [outcome |-> o, msg |-> m, verdict |-> v]

\* validate_answer with the solution file holding sol, on the answer df
ValidateCall(df, sol) ==
    IF sol = MissingCsv
    THEN Validated("FileIOError", Msg("Solution DataFrame file not found", {}),
                   Verdict("file", FALSE))
    ELSE IF sol = EmptyFile
    THEN Validated("FileIOError", Msg("Solution file is empty or invalid", {}),
                   Verdict("file", FALSE))
    ELSE IF df = NoneDf
    THEN Validated("AttributeError",
                   Msg("'NoneType' object has no attribute 'columns'", {}),
                   Verdict("structure", FALSE))
    ELSE IF ~_validate_dataframe_structure(df, sol).ok
    THEN Validated("ValidationError",
                   Msg("Column mismatch: ", _validate_dataframe_structure(df, sol).column_diff),
                   Verdict("structure", FALSE))
    ELSE Validated("ok", NoMsg, Verdict("compare", _compare_dataframes(df, sol).result))

NoSolution == Table(<<>>, <<>>, <<>>)

Init ==
    /\ query = NoQuery
    /\ answer_df = NoneDf
    /\ store \in StoreStates
    /\ openConns = 0
    /\ op = "init"
    /\ outcome = "ok"
    /\ msg = NoMsg
    /\ trace = <<>>
    /\ sent = NoQuery
    /\ verdict = [v |-> NoVerdict, expected |-> NoSolution]
    /\ df1 = NoneDf
    /\ df2 = NoneDf
    /\ cmp = NotCompared
    /\ report = NotReported
    /\ InitGenerators
    /\ InitLearner

\* AnswerValidator(...): a new validator on the same database
Construct ==
    /\ op # "init"
    /\ query' = NoQuery
    /\ answer_df' = NoneDf
    /\ op' = "init"
    /\ outcome' = "ok"
    /\ msg' = NoMsg
    /\ trace' = <<>>
    /\ sent' = NoQuery
    /\ verdict' = [v |-> NoVerdict, expected |-> NoSolution]
    /\ UNCHANGED <<store, openConns, comparatorVars, generatorVars, learnerVars>>

\* load_sql(): self.query = file.read().strip()
LoadSql ==
    /\ \E f \in SqlFiles :
        IF f = MissingFile
        THEN /\ outcome' = "FileIOError"
             /\ msg' = Msg("Failed to read SQL file", {})
             /\ query' = query
        ELSE IF f = NoFilename
        THEN /\ outcome' = "TypeError"
             /\ msg' = Msg("expected str, bytes or os.PathLike object, not NoneType", {})
             /\ query' = query
        ELSE /\ outcome' = "ok"
             /\ msg' = NoMsg
             /\ query' = Strip(f)
    /\ op' = "load_sql"
    /\ trace' = <<>>
    /\ sent' = NoQuery
    /\ verdict' = [v |-> NoVerdict, expected |-> NoSolution]
    /\ UNCHANGED <<answer_df, store, openConns, comparatorVars, generatorVars, learnerVars>>

\* validator.query = user_sql (app.py)
SetQuery ==
    /\ \E q \in Queries : query' = q
    /\ op' = "set_query"
    /\ outcome' = "ok"
    /\ msg' = NoMsg
    /\ trace' = <<>>
    /\ sent' = NoQuery
    /\ verdict' = [v |-> NoVerdict, expected |-> NoSolution]
    /\ UNCHANGED <<answer_df, store, openConns, comparatorVars, generatorVars, learnerVars>>

ExecuteQuery ==
    /\ openConns < MaxOpen
    /\ \E connOK \in BOOLEAN :
        LET r == ExecuteCall(query, store, connOK)
        IN  /\ outcome' = r.outcome
            /\ msg' = r.msg
            /\ trace' = r.trace
            /\ sent' = r.sent
            /\ answer_df' = IF r.setDf THEN r.df ELSE answer_df
            /\ store' = r.store
            /\ openConns' = openConns + r.leaked
    /\ op' = "execute_query"
    /\ verdict' = [v |-> NoVerdict, expected |-> NoSolution]
    /\ UNCHANGED <<query, comparatorVars, generatorVars, learnerVars>>

ValidateAnswer ==
    /\ \E sol \in SolutionFiles :
        LET r == ValidateCall(answer_df, sol)
        IN  /\ outcome' = r.outcome
            /\ msg' = r.msg
            /\ verdict' = [v |-> r.verdict, expected |-> sol]
    /\ op' = "validate_answer"
    /\ trace' = <<>>
    /\ sent' = NoQuery
    /\ UNCHANGED <<query, answer_df, store, openConns, comparatorVars, generatorVars, learnerVars>>

Next ==
    \/ Construct
    \/ LoadSql
    \/ SetQuery
    \/ ExecuteQuery
    \/ ValidateAnswer

Spec == Init /\ [][Next]_vars

----------------------------------------------------------------------------
(* The comparator on its own: every pair of tables with the same columns *)

RECURSIVE SeqsUpTo(_, _)
SeqsUpTo(S, n) ==
    IF n = 0 THEN {<<>>}
    ELSE LET shorter == SeqsUpTo(S, n - 1)
         IN  shorter \cup {Append(t, x) : t \in shorter, x \in S}

CellValues == {1, 2}
CmpRows == {<<x, y>> : x \in CellValues, y \in CellValues}
CmpDtypes == {<<"int64", "int64">>, <<"float64", "int64">>}
CmpTables == {Table(<<"a", "b">>, d, r) : d \in CmpDtypes, r \in SeqsUpTo(CmpRows, MaxRows)}

InitCmp ==
    /\ df1 \in CmpTables
    /\ df2 \in CmpTables
    /\ cmp = NotCompared
    /\ report = NotReported
    /\ query = NoQuery
    /\ answer_df = NoneDf
    /\ store = StoreOf(TRUE, <<>>)
    /\ openConns = 0
    /\ op = "init"
    /\ outcome = "ok"
    /\ msg = NoMsg
    /\ trace = <<>>
    /\ sent = NoQuery
    /\ verdict = [v |-> NoVerdict, expected |-> NoSolution]
    /\ InitGenerators
    /\ InitLearner

CompareDataframes ==
    /\ cmp' = _compare_dataframes(df1, df2)
    /\ UNCHANGED <<df1, df2, report, validatorVars, generatorVars, learnerVars>>

GenerateDetailedReport ==
    /\ report' = generate_detailed_report(df1, df2)
    /\ UNCHANGED <<df1, df2, cmp, validatorVars, generatorVars, learnerVars>>

NextCmp ==
    \/ CompareDataframes
    \/ GenerateDetailedReport

SpecCmp == InitCmp /\ [][NextCmp]_vars

----------------------------------------------------------------------------
(* Inputs of the generator *)

IntRange(lo, hi) == MinMax(IntLit(lo), IntLit(hi))

\* fields a and b, both integers from 1 to 2: the columns of the table t
TwoIntFields == <<Field("a", "int", IntRange(1, 2)), Field("b", "int", IntRange(1, 2))>>

\* a text field and a boolean field
TextAndBoolFields ==
    <<Field("s", "str", Array(<<StrLit("x"), StrLit("y"), StrLit("z")>>)),
      Field("f", "bool", Array(<<BoolLit(TRUE), BoolLit(FALSE)>>))>>

\* data_generation: {num_records: 2, seed: 1, table_name: t}
Defaults == DataGeneration(2, 1, "t")

OneField(f) == Config(Defaults, <<f>>)

ValidConfig == Config(Defaults, TwoIntFields)
ValidTextConfig == Config(DataGeneration(2, 2, "t"), TextAndBoolFields)

\* no such file; a file that is not YAML; a YAML scalar; "invalid: yaml"
MissingConfig == Document("missing", {}, EmptySection, <<>>)
UnparsableConfig == Document("unparsable", {}, EmptySection, <<>>)
ScalarConfig == Document("scalar", {}, EmptySection, <<>>)
NoSectionConfig == Document("mapping", {"invalid"}, EmptySection, <<>>)
\* the invalid configurations of test_validate_config
NoFieldsConfig == Document("mapping", {"data_generation"}, EmptySection, <<>>)
EmptyFieldsConfig == Config(EmptySection, <<>>)
FieldWithoutKeysConfig ==
    Config(EmptySection, <<FieldEntry({"name"}, "id", "", Array(<<>>))>>)
FloatTypeConfig ==
    Config(EmptySection, <<Field("id", "float", Values("object", {}, NoLit, NoLit, <<>>))>>)
\* num_records above the maximum, as in test_validate_config_schema
TooManyConfig == Config(DataGeneration(20000000, 1, "t"), TwoIntFields)

\* fields whose values do not fit their type
MinAboveMaxConfig == OneField(Field("a", "int", IntRange(2, 1)))
IntWithoutMaxConfig == OneField(Field("a", "int", OnlyMin(IntLit(1))))
IntWithListConfig == OneField(Field("a", "int", Array(<<StrLit("x")>>)))
TextWithRangeConfig == OneField(Field("s", "str", IntRange(1, 2)))
TextWithBoolsConfig == OneField(Field("s", "str", Array(<<BoolLit(TRUE), BoolLit(FALSE)>>)))
TextWithEmptyListConfig == OneField(Field("s", "str", Array(<<>>)))
\* two fields of the same name
SameNameConfig ==
    Config(Defaults, <<Field("a", "int", IntRange(1, 2)),
                       Field("a", "str", Array(<<StrLit("x"), StrLit("y")>>))>>)

Documents ==
    {MissingConfig, UnparsableConfig, ScalarConfig, NoSectionConfig, NoFieldsConfig,
     EmptyFieldsConfig, FieldWithoutKeysConfig, FloatTypeConfig, TooManyConfig,
     ValidConfig, ValidTextConfig, MinAboveMaxConfig, IntWithoutMaxConfig,
     IntWithListConfig, TextWithRangeConfig, TextWithBoolsConfig,
     TextWithEmptyListConfig, SameNameConfig}

\* num_records as the caller passes it: None, 0, 1, -1, "100"
NoNumber == NoLit
NumArgs == {NoNumber, IntLit(0), IntLit(1), IntLit(-1), StrLit("100")}

\* bool(x) is False: None, 0, ""
Falsy(l) == l.ty = "none" \/ (l.ty = "int" /\ l.i = 0) \/ (l.ty = "str" /\ l.s = "")

\* a call of the constructor; connOK: sqlite3.connect succeeds
Call(doc, n, samples, connOK) ==
    [yaml_config |-> doc, num_records |-> n, sample_data |-> samples, connOK |-> connOK]

SampleRecord(n) == <<Pair("a", IntLit(n)), Pair("b", IntLit(n))>>

\* sample_data: None, one record, three records
SampleLists == {<<>>, <<SampleRecord(7)>>, <<SampleRecord(7), SampleRecord(8), SampleRecord(9)>>}

----------------------------------------------------------------------------
(* DataGenerator operations *)

\* what one call on a generator does
Did(o, m, g, r, st) == [outcome |-> o, msg |-> m, gen |-> g, rng |-> r, store |-> st]

\* load_yaml_config: self.config is assigned before the document is validated
load_yaml_config(gen, yaml_file, r, st) ==
    IF yaml_file.kind = "missing"
    THEN Did("FileIOError", Msg("Failed to read config file", {}), gen, r, st)
    ELSE IF yaml_file.kind = "unparsable"
    THEN Did("ConfigurationError", Msg("Failed to parse YAML config file", {}), gen, r, st)
    ELSE LET v == _validate_config(yaml_file)
             loaded == [gen EXCEPT !.config = yaml_file]
         IN  IF v.exc # "" THEN Did(v.exc, Msg(v.msg, {}), loaded, r, st)
             ELSE Did("ok", NoMsg, loaded, r, st)

DefaultNumRecords == 10000

\* DataGenerator(sample_data, yaml_config, num_records): old is what the
\* caller's name is bound to when the constructor raises
DataGenerator(old, sample_data, yaml_config, num_records, r, st, connOK) ==
    LET self == Gen(TRUE, NoConfig, num_records, 0, sample_data, <<>>, FALSE, "none")
        loaded == load_yaml_config(self, yaml_config, r, st)
        cfg_gen == loaded.gen.config.data_generation
        cfg_num_records == IF "num_records" \in cfg_gen.has
                           THEN IntLit(cfg_gen.num_records) ELSE NoLit
        n == IF ~Falsy(num_records) THEN num_records
             ELSE IF ~Falsy(cfg_num_records) THEN cfg_num_records
             ELSE IntLit(DefaultNumRecords)
        seeded == IF "seed" \in cfg_gen.has THEN random_seed(cfg_gen.seed) ELSE r
    IN  IF loaded.outcome # "ok" THEN Did(loaded.outcome, loaded.msg, old, r, st)
        ELSE IF _validate_num_records(n).exc # ""
        THEN Did("ValidationError", Msg(_validate_num_records(n).msg, {}), old, r, st)
        ELSE IF ~connOK
        THEN Did("sqlite3.OperationalError", Msg("unable to open database file", {}),
                 old, seeded, st)
        ELSE Did("ok", NoMsg,
                 Gen(TRUE, loaded.gen.config, num_records, n.i, sample_data, <<>>, FALSE, "open"),
                 seeded, st)

\* generate_records: self.records = pd.DataFrame(records) when the loop ends
GenerateCall(gen, r, st) ==
    LET res == generate_records(gen.config, gen.sample_data, gen.num_records, r)
    IN  IF res.exc # "" THEN Did(res.exc, NoMsg, gen, res.rng, st)
        ELSE Did("ok", NoMsg, [gen EXCEPT !.records = res.out, !.generated = TRUE],
                 res.rng, st)

\* write_to_csv: self.records is still the list [] before generate_records
write_to_csv(gen, r, st, ioOK) ==
    IF ~gen.generated
    THEN Did("AttributeError", Msg("'list' object has no attribute 'to_csv'", {}), gen, r, st)
    ELSE IF ~ioOK
    THEN Did("FileIOError", Msg("Failed to write CSV file", {}), gen, r, st)
    ELSE Did("ok", NoMsg, gen, r, st)

\* save_to_sqlite: to_sql on self.conn, then self.conn.close()
save_to_sqlite(gen, r, st, insertOK) ==
    IF ~gen.generated
    THEN Did("AttributeError", Msg("'list' object has no attribute 'to_sql'", {}), gen, r, st)
    ELSE IF gen.conn # "open"
    THEN Did("DatabaseError",
             Msg("Failed to save data to SQLite database: Cannot operate on a closed database.", {}),
             gen, r, st)
    ELSE LET w == to_sql(st, ToRows(gen.records), insertOK)
         IN  IF w.exc # ""
             THEN Did("DatabaseError", Msg("Failed to save data to SQLite database", {}),
                      gen, r, w.store)
             ELSE Did("ok", NoMsg, [gen EXCEPT !.conn = "closed"], r, w.store)

\* the state left by the call d on generator g
Apply(g, d) ==
    /\ outcome' = d.outcome
    /\ msg' = d.msg
    /\ gens' = [gens EXCEPT ![g] = d.gen]
    /\ rng' = d.rng
    /\ store' = d.store
    /\ UNCHANGED <<query, answer_df, openConns, trace, sent, verdict, comparatorVars, sess, learnerVars>>

\* outputs of the random generator after which the model stops generating
MaxPos == 9

----------------------------------------------------------------------------
(* One generator, every configuration document *)

\* the documents the validator accepts, and two it rejects
ConstructorDocuments ==
    {d \in Documents : d.kind = "mapping" /\ _validate_config(d).exc = ""}
    \cup {MissingConfig, NoSectionConfig}

\* the constructor calls of the model: those documents with the defaults, and
\* the valid configuration with every num_records and sample_data
Calls ==
    {Call(doc, NoNumber, <<>>, TRUE) : doc \in ConstructorDocuments}
    \cup {Call(ValidConfig, n, <<>>, TRUE) : n \in NumArgs}
    \cup {Call(ValidConfig, n, samples, TRUE) : n \in {NoNumber, IntLit(1)},
                                                 samples \in SampleLists}
    \cup {Call(ValidConfig, NoNumber, <<>>, FALSE)}

\* no object yet, no table yet
InitGen ==
    /\ Init
    /\ store = StoreOf(FALSE, <<>>)

NewGenerator ==
    /\ op' = "DataGenerator"
    /\ \E c \in Calls :
        Apply(1, DataGenerator(gens[1], c.sample_data, c.yaml_config, c.num_records,
                               rng, store, c.connOK))

LoadYamlConfig ==
    /\ gens[1].alive
    /\ op' = "load_yaml_config"
    /\ \E doc \in Documents : Apply(1, load_yaml_config(gens[1], doc, rng, store))

GenerateRecords ==
    /\ gens[1].alive
    /\ rng.pos < MaxPos
    /\ op' = "generate_records"
    /\ Apply(1, GenerateCall(gens[1], rng, store))

WriteToCsv ==
    /\ gens[1].alive
    /\ op' = "write_to_csv"
    /\ \E ioOK \in BOOLEAN : Apply(1, write_to_csv(gens[1], rng, store, ioOK))

NextGen ==
    \/ NewGenerator
    \/ LoadYamlConfig
    \/ GenerateRecords
    \/ WriteToCsv

SpecGen == InitGen /\ [][NextGen]_vars

----------------------------------------------------------------------------
(* Two generators in one process, on valid configurations *)

\* DataGenerator(yaml_config="infra/config/config.yml"), as app.py and
\* SQl_answer.py construct it
RunDataGenerator ==
    /\ op' = "DataGenerator"
    /\ \E g \in Generators :
        Apply(g, DataGenerator(gens[g], <<>>, ValidConfig, NoNumber, rng, store, TRUE))

RunGenerateRecords ==
    /\ rng.pos < MaxPos
    /\ op' = "generate_records"
    /\ \E g \in Generators :
        /\ gens[g].alive
        /\ Apply(g, GenerateCall(gens[g], rng, store))

RunWriteToCsv ==
    /\ op' = "write_to_csv"
    /\ \E g \in Generators :
        /\ gens[g].alive
        /\ Apply(g, write_to_csv(gens[g], rng, store, TRUE))

\* save_to_sqlite on a store that takes every INSERT
RunSaveToSqlite ==
    /\ op' = "save_to_sqlite"
    /\ \E g \in Generators :
        /\ gens[g].alive
        /\ Apply(g, save_to_sqlite(gens[g], rng, store, TRUE))

SchemaGeneratorSeed == 42

\* SchemaGenerator(db_path): random.seed(seed), seed = 42
RunSchemaGenerator ==
    /\ op' = "SchemaGenerator"
    /\ outcome' = "ok"
    /\ msg' = NoMsg
    /\ rng' = random_seed(SchemaGeneratorSeed)
    /\ UNCHANGED <<gens, store, query, answer_df, openConns, trace, sent, verdict,
                   comparatorVars, sess, learnerVars>>

NextRuns ==
    \/ RunDataGenerator
    \/ RunGenerateRecords
    \/ RunWriteToCsv
    \/ RunSaveToSqlite
    \/ RunSchemaGenerator

SpecRuns == InitGen /\ [][NextRuns]_vars

----------------------------------------------------------------------------
(* Two web sessions, each running the Submit handler of app.py, on one store *)

\* the table of the question is there, complete, before any session submits
InitSessions ==
    /\ Init
    /\ store = StoreOf(TRUE, <<<<2, 1>>, <<1, 2>>>>)

\* what user_sql holds: the text area of the session
user_sql == "SELECT * FROM t"

\* session s is about to run the statement named pc
At(s, pc) == sess[s].pc = pc

\* session s goes on to statement pc; an exception ends the handler
Goto(s, pc) == sess' = [sess EXCEPT ![s].pc = pc]

\* the state a statement of session s leaves: d is what the call on the
\* session's generator did, pc the statement that follows if it returned
Statement(s, d, pc) ==
    /\ outcome' = d.outcome
    /\ msg' = d.msg
    /\ gens' = [gens EXCEPT ![s] = d.gen]
    /\ rng' = d.rng
    /\ store' = d.store
    /\ Goto(s, IF d.outcome = "ok" THEN pc ELSE "idle")
    /\ UNCHANGED <<query, answer_df, openConns, trace, sent, verdict, comparatorVars, learnerVars>>

\* a step of to_sql in session s: w is what the statement did on the store
SqlStatement(s, w, pc) ==
    Statement(s, Did(IF w.exc = "" THEN "ok"
                     ELSE IF w.exc = "sqlite3.Error" THEN "DatabaseError"
                     ELSE w.exc,
                     NoMsg, gens[s], rng, w.store), pc)

\* the button: data_gen = DataGenerator(yaml_config="infra/config/config.yml")
SubmitAnswer(s) ==
    /\ At(s, "idle")
    /\ op' = "DataGenerator"
    /\ Statement(s, DataGenerator(gens[s], <<>>, ValidConfig, NoNumber, rng, store, TRUE),
                 "generate_records")

\* data_gen.generate_records()
SessionGenerateRecords(s) ==
    /\ At(s, "generate_records")
    /\ rng.pos < MaxPos
    /\ op' = "generate_records"
    /\ Statement(s, GenerateCall(gens[s], rng, store), "write_to_csv")

\* data_gen.write_to_csv()
SessionWriteToCsv(s) ==
    /\ At(s, "write_to_csv")
    /\ op' = "write_to_csv"
    /\ Statement(s, write_to_csv(gens[s], rng, store, TRUE), "has_table")

\* data_gen.save_to_sqlite(), first step of to_sql: is the table there?
HasTable(s) ==
    /\ At(s, "has_table")
    /\ op' = "save_to_sqlite"
    /\ outcome' = "ok"
    /\ msg' = NoMsg
    /\ sess' = [sess EXCEPT ![s].pc = IF has_table(store) THEN "drop_table" ELSE "create_table",
                            ![s].exists = has_table(store)]
    /\ UNCHANGED <<gens, rng, store, query, answer_df, openConns, trace, sent, verdict,
                   comparatorVars, learnerVars>>

\* if_exists='replace': DROP TABLE
DropTable(s) ==
    /\ At(s, "drop_table")
    /\ op' = "save_to_sqlite"
    /\ SqlStatement(s, drop_table(store), "create_table")

\* CREATE TABLE
CreateTable(s) ==
    /\ At(s, "create_table")
    /\ op' = "save_to_sqlite"
    /\ SqlStatement(s, create_table(store), "insert")

\* the INSERTs and their commit, or their rollback, then self.conn.close()
Insert(s) ==
    /\ At(s, "insert")
    /\ op' = "save_to_sqlite"
    /\ \E insertOK \in BOOLEAN :
        LET w == insert(store, ToRows(gens[s].records), insertOK)
        IN  Statement(s, Did(IF w.exc = "" THEN "ok" ELSE "DatabaseError", NoMsg,
                             [gens[s] EXCEPT !.conn = IF w.exc = "" THEN "closed" ELSE @],
                             rng, w.store),
                      "execute_query")

\* validator = AnswerValidator(...); validator.query = user_sql;
\* validator.execute_query(): the handler shows the result or the error
SessionExecuteQuery(s) ==
    /\ At(s, "execute_query")
    /\ op' = "execute_query"
    /\ LET x == ExecuteCall(user_sql, store, TRUE)
       IN  /\ outcome' = x.outcome
           /\ msg' = x.msg
           /\ store' = x.store
           /\ sess' = [sess EXCEPT ![s].pc = "idle",
                                   ![s].answer = Answer(x.outcome, x.df)]
    /\ UNCHANGED <<gens, rng, query, answer_df, openConns, trace, sent, verdict,
                   comparatorVars, learnerVars>>

NextSessions ==
    \E s \in Sessions :
        \/ SubmitAnswer(s)
        \/ SessionGenerateRecords(s)
        \/ SessionWriteToCsv(s)
        \/ HasTable(s)
        \/ DropTable(s)
        \/ CreateTable(s)
        \/ Insert(s)
        \/ SessionExecuteQuery(s)

SpecSessions == InitSessions /\ [][NextSessions]_vars

----------------------------------------------------------------------------
(* The methods of DifficultyManager, on every level *)

\* hints_used up to where every level's score has reached 0
MaxHintsUsed == 31

\* time_taken: 0, the level's time_bonus_threshold and the second after it
Times(level) ==
    {0, get_config(level).time_bonus_threshold, get_config(level).time_bonus_threshold + 1}

\* the call returned
Returned(name) ==
    /\ op' = name
    /\ outcome' = "ok"
    /\ msg' = NoMsg

ValidateProgression ==
    /\ Returned("validate_progression")
    /\ \E level \in DifficultyLevel, completed \in SUBSET DifficultyLevel :
        calc' = Called("validate_progression", level, completed, 0, 0, FALSE,
                       validate_progression(level, completed), NoLevel, 0)
    /\ UNCHANGED <<coreVars, hs, mgr, user, user_file>>

GetNextLevel ==
    /\ Returned("get_next_level")
    /\ \E level \in DifficultyLevel :
        calc' = Called("get_next_level", level, {}, 0, 0, FALSE, FALSE,
                       get_next_level(level), 0)
    /\ UNCHANGED <<coreVars, hs, mgr, user, user_file>>

CalculateScore ==
    /\ Returned("calculate_score")
    /\ \E level \in DifficultyLevel, hints_used \in 0..MaxHintsUsed, is_correct \in BOOLEAN :
       \E time_taken \in Times(level) :
        calc' = Called("calculate_score", level, {}, time_taken, hints_used, is_correct,
                       FALSE, NoLevel,
                       calculate_score(level, time_taken, hints_used, is_correct))
    /\ UNCHANGED <<coreVars, hs, mgr, user, user_file>>

NextDifficulty ==
    \/ ValidateProgression
    \/ GetNextLevel
    \/ CalculateScore

SpecDifficulty == InitGen /\ [][NextDifficulty]_vars

----------------------------------------------------------------------------
(* One ProgressiveHintSystem *)

NewHintSystem ==
    /\ Returned("ProgressiveHintSystem")
    /\ \E level \in DifficultyLevel : hs' = ProgressiveHintSystem(level, "q1")
    /\ UNCHANGED <<coreVars, calc, mgr, user, user_file>>

GetNextHint ==
    /\ hs.alive
    /\ op' = "get_next_hint"
    /\ \E llmOK \in BOOLEAN :
        LET h == get_next_hint(hs, llmOK)
        IN  /\ outcome' = IF h.exc = "" THEN "ok" ELSE h.exc
            /\ hs' = h.self
    /\ msg' = NoMsg
    /\ UNCHANGED <<coreVars, calc, mgr, user, user_file>>

Reset ==
    /\ hs.alive
    /\ Returned("reset")
    /\ hs' = reset(hs)
    /\ UNCHANGED <<coreVars, calc, mgr, user, user_file>>

NextHints ==
    \/ NewHintSystem
    \/ GetNextHint
    \/ Reset

SpecHints == InitGen /\ [][NextHints]_vars

----------------------------------------------------------------------------
(* One HintManager, two questions *)

\* hints a manager hands out before the model stops asking
MaxGlobal == 4

\* the difficulty levels of the two questions
ManagerLevels == {"INTERMEDIATE", "ADVANCED", "EXPERT"}

RequestHint ==
    /\ mgr.global_hints_used < MaxGlobal
    /\ op' = "request_hint"
    /\ \E q \in QuestionNames, level \in ManagerLevels, llmOK \in BOOLEAN :
        LET r == request_hint(mgr, q, level, llmOK)
        IN  /\ outcome' = IF r.exc = "" THEN "ok" ELSE r.exc
            /\ mgr' = r.self
    /\ msg' = NoMsg
    /\ UNCHANGED <<coreVars, calc, hs, user, user_file>>

ResetQuestion ==
    /\ Returned("reset_question")
    /\ \E q \in QuestionNames : mgr' = reset_question(mgr, q)
    /\ UNCHANGED <<coreVars, calc, hs, user, user_file>>

ResetAll ==
    /\ Returned("reset_all")
    /\ mgr' = reset_all(mgr)
    /\ UNCHANGED <<coreVars, calc, hs, user, user_file>>

NextManager ==
    \/ RequestHint
    \/ ResetQuestion
    \/ ResetAll

SpecManager == InitGen /\ [][NextManager]_vars

----------------------------------------------------------------------------
(* One username: a User, and the User built after it on the same file *)

\* attempts a user records before the model stops recording
MaxAttempts == 3

\* the highest total_score of the model
MaxScore == 100

\* points of update_score (test_update_score adds and takes away)
Points == {100, -25}

\* the state a User method leaves
Done(r) ==
    /\ outcome' = IF r.exc = "" THEN "ok" ELSE r.exc
    /\ msg' = NoMsg
    /\ user' = r.progress
    /\ user_file' = r.file
    /\ UNCHANGED <<coreVars, calc, hs, mgr>>

\* User(base_dir, username): self.progress = self.load_progress()
NewUser ==
    /\ op' = "User"
    /\ Done(Progressed("", load_progress(user_file), user_file))

StartQuestion ==
    /\ op' = "start_question"
    /\ \E q \in QuestionNames \cup {""} : Done(start_question(user, user_file, q))

RecordSolutionAttempt ==
    /\ user.statistics.total_attempts < MaxAttempts
    /\ op' = "record_solution_attempt"
    /\ \E is_correct \in BOOLEAN : Done(record_solution_attempt(user, user_file, is_correct))

UpdateScore ==
    /\ op' = "update_score"
    /\ \E points \in Points :
        /\ user.total_score + points \in 0..MaxScore
        /\ Done(update_score(user, user_file, points))

MarkLevelCompleted ==
    /\ op' = "mark_level_completed"
    /\ \E level \in {"BEGINNER", "INTERMEDIATE"} :
        Done(mark_level_completed(user, user_file, level))

NextUser ==
    \/ NewUser
    \/ StartQuestion
    \/ RecordSolutionAttempt
    \/ UpdateScore
    \/ MarkLevelCompleted

SpecUser == InitGen /\ [][NextUser]_vars

----------------------------------------------------------------------------
(* What the claims speak of *)

Normalized(q) == Upper(Strip(q))

StartsReadOnly(q) ==
    StartsWith(Normalized(q), "SELECT") \/ StartsWith(Normalized(q), "WITH")

\* the forbidden verbs found anywhere in the normalized text
VerbsIn(q) ==
    {k \in DOMAIN forbidden_keywords : Contains(Normalized(q), forbidden_keywords[k])}

\* empty, not a SELECT or WITH, or a forbidden verb anywhere
MustReject(q) == q \in {"", NoQuery} \/ ~StartsReadOnly(q) \/ VerbsIn(q) # {}

Executing == op = "execute_query"

\* C1: every call of execute_query asks the gate first, on the current query;
\* a call whose gate check fails does nothing else: it opens no connection and
\* hands no text to the store, and the text a call hands over is the query
\* the gate passed.
C1_GateBeforeStore ==
    Executing =>
        /\ trace # <<>>
        /\ Head(trace) = "gate"
        /\ ~_validate_query_safety(query).ok =>
               (trace = <<"gate">> /\ sent = NoQuery /\ outcome = "SecurityError")
        /\ sent # NoQuery => sent = query

\* a later call of a validator that already holds a result is stopped at the gate
C1_Witness ==
    /\ Executing
    /\ answer_df # NoneDf
    /\ trace = <<"gate">>
    /\ outcome = "SecurityError"

\* C2: execute_query on a query that is empty, does not start with SELECT or
\* WITH, or holds a forbidden verb anywhere, fails with SecurityError and
\* leaves the store and answer_df as they were; the two plain read-only
\* queries pass the gate.
C2_UnsafeRejected ==
    /\ [][(op' = "execute_query" /\ MustReject(query)) =>
            (outcome' = "SecurityError" /\ store' = store /\ answer_df' = answer_df)]_vars
    /\ [](/\ _validate_query_safety("SELECT * FROM t").ok
          /\ _validate_query_safety("WITH x AS (SELECT 1) SELECT * FROM x").ok)

\* a query that starts with SELECT is rejected for a verb further on, and the
\* result of an earlier call stays
C2_Witness ==
    /\ Executing
    /\ StartsReadOnly(query)
    /\ VerbsIn(query) # {}
    /\ outcome = "SecurityError"
    /\ answer_df # NoneDf

\* C3: a query that holds more than one statement is rejected by the gate and
\* never handed to the store (looked at in the calls that find the database
\* file, where the gate alone stands between the query and the store).
C3_SingleStatementOnly ==
    (Executing /\ Len(Statements(query)) > 1 /\ "connect_failed" \notin Range(trace)) =>
        (outcome = "SecurityError" /\ sent = NoQuery)

WordChars == UpperAlpha \o LowerAlpha \o "0123456789_"
IsWordChar(c) == Contains(WordChars, c)

\* k occurs in s with no word character next to it on either side
WholeWord(s, k) ==
    \E i \in 1..(Len(s) - Len(k) + 1) :
        /\ SubSeq(s, i, i + Len(k) - 1) = k
        /\ (i = 1 \/ ~IsWordChar(Char(s, i - 1)))
        /\ (i + Len(k) > Len(s) \/ ~IsWordChar(Char(s, i + Len(k))))

\* C4: a query that starts with SELECT or WITH is rejected for a forbidden
\* verb only when the verb occurs in the normalized text as a whole word, not
\* when it is only part of a longer identifier.
C4_WholeWordOnly ==
    (Executing /\ StartsReadOnly(query) /\ outcome = "SecurityError") =>
        \E k \in DOMAIN forbidden_keywords : WholeWord(Normalized(query), forbidden_keywords[k])

Validating ==
    /\ op = "validate_answer"
    /\ answer_df # NoneDf
    /\ verdict.expected \notin {MissingCsv, EmptyFile}

\* C5: when the column sequence of the answer differs from that of the
\* expected result, validate_answer raises ValidationError naming the
\* symmetric difference of the column sets, and the comparison is not reached.
C5_ColumnsFirst ==
    (Validating /\ answer_df.cols # verdict.expected.cols) =>
        /\ outcome = "ValidationError"
        /\ msg.names = SymDiff(Range(answer_df.cols), Range(verdict.expected.cols))
        /\ verdict.v.stage = "structure"

\* the same names in another order
C5_Witness ==
    /\ Validating
    /\ answer_df.cols # verdict.expected.cols
    /\ Range(answer_df.cols) = Range(verdict.expected.cols)
    /\ outcome = "ValidationError"

\* C9: when the store rejects a query the gate passed, execute_query fails
\* with DatabaseError carrying the store's message, and answer_df is left as
\* it was.
C9_StoreErrorSurfaces ==
    [][(/\ op' = "execute_query"
        /\ _validate_query_safety(query).ok
        /\ "execute" \in Range(trace')
        /\ StoreRun(query, store).exc # "") =>
            (/\ outcome' = "DatabaseError"
             /\ Contains(msg'.text, StoreRun(query, store).msg)
             /\ answer_df' = answer_df)]_vars

\* a failed call after a successful one
C9_Witness ==
    /\ Executing
    /\ "execute" \in Range(trace)
    /\ outcome = "DatabaseError"
    /\ answer_df # NoneDf

\* C10: no connection opened by execute_query is open once it has returned
\* or raised.
C10_ConnectionsReleased == Executing => openConns = 0

----------------------------------------------------------------------------

WithRows(df, r) == Table(df.cols, df.dtypes, r)

\* the rows of a table in every order
Reorderings(rows) ==
    {[i \in DOMAIN rows |-> rows[p[i]]] : p \in Permutations(DOMAIN rows)}

\* C6: for tables with the same columns, reordering the rows of the answer,
\* of the expected result, or of both never changes what _compare_dataframes
\* returns.
C6_RowOrderIrrelevant ==
    cmp.ran =>
        \A r1 \in Reorderings(df1.rows), r2 \in Reorderings(df2.rows) :
            _compare_dataframes(WithRows(df1, r1), WithRows(df2, r2)).result = cmp.result

\* a match between tables whose rows come in different orders
C6_Witness ==
    /\ cmp.ran
    /\ cmp.result
    /\ df1.rows # df2.rows

\* C7: _compare_dataframes returns True exactly when the row counts are equal
\* and, after sorting both tables by all columns, every row equals its
\* counterpart value by value.
C7_MatchIffNoMismatch ==
    cmp.ran =>
        (cmp.result <=>
            /\ Len(df1.rows) = Len(df2.rows)
            /\ \A i \in DOMAIN df1.rows : SortRows(df1.rows)[i] = SortRows(df2.rows)[i])

\* C8: when the row counts differ the comparison returns False without
\* comparing values, and the report states the lengths as (expected, actual).
C8_RowCountReport ==
    Len(df1.rows) # Len(df2.rows) =>
        /\ cmp.ran =>
               /\ ~cmp.result
               /\ ~cmp.sorted
               /\ cmp.row_count = <<Len(df2.rows), Len(df1.rows)>>
        /\ report.ran =>
               /\ report.raised = ""
               /\ ReportLine("rows", "", Len(df2.rows), Len(df1.rows)) \in Range(report.lines)


TypedErrors ==
    {"ConfigurationError", "ValidationError", "SecurityError", "DatabaseError", "FileIOError"}

\* C11: every public operation of AnswerValidator and DataGenerator, in any
\* order of calls, either succeeds or raises one of the five typed errors; so
\* does write_to_csv or save_to_sqlite called before generate_records.
C11_TypedErrorsOnly ==
    outcome \in {"ok"} \cup TypedErrors

\* the generator object of SpecGen
TheGen == gens[1]

Generating == op = "generate_records"

\* C12: generate_records only ever reads a configuration that has passed
\* _validate_config; a load_yaml_config that fails validation does not leave
\* the rejected document as the configuration of later synthesis.
C12_ValidatedBeforeSynthesis ==
    Generating => _validate_config(TheGen.config).exc = ""

\* the literals of a list all have the Python type of the field's kind
ItemsOfKind(f) ==
    \A i \in DOMAIN f.values.items :
        f.values.items[i].ty = (IF f.type = "str" THEN "str" ELSE "bool")

\* a field's domain is consistent with its kind
DomainFits(f) ==
    IF f.type = "int"
    THEN /\ f.values.tag = "object"
         /\ {"min", "max"} \subseteq f.values.has
         /\ f.values.min.ty = "int" /\ f.values.max.ty = "int"
         /\ f.values.min.i <= f.values.max.i
    ELSE /\ f.type \in {"str", "bool"}
         /\ f.values.tag = "array"
         /\ f.values.items # <<>>
         /\ ItemsOfKind(f)

\* the validator accepted the configuration the generator now holds
ConfigAccepted == op \in {"DataGenerator", "load_yaml_config"} /\ outcome = "ok"

\* C13: a configuration the validator accepts has, for every field, a domain
\* consistent with the field's kind: integer min <= max for int, a non-empty
\* list of literals of the matching type for str and bool.
C13_DomainFitsKind ==
    ConfigAccepted => \A i \in DOMAIN TheGen.config.fields : DomainFits(TheGen.config.fields[i])

\* the document fails structural or type validation
FailsStructure(config) ==
    \/ config.kind # "mapping"
    \/ ~({"data_generation", "fields"} \subseteq config.keys)
    \/ config.fields = <<>>
    \/ \E i \in DOMAIN config.fields :
           \/ ~({"name", "type", "values"} \subseteq config.fields[i].has)
           \/ config.fields[i].type \notin {"int", "str", "bool"}
    \/ ~CONFIG_SCHEMA(config)

\* C14: load_yaml_config on a document that fails structural or type
\* validation raises ConfigurationError (looked at in the calls that could read
\* the file, which leave the document in self.config).
C14_ConfigurationErrorOnly ==
    (op = "load_yaml_config" /\ outcome # "FileIOError" /\ FailsStructure(TheGen.config))
        => outcome = "ConfigurationError"

\* the records generate_records added after the sample records
Synthesized_(gen) == (Len(gen.sample_data) + 1)..Len(gen.records)

\* C15: on a configuration accepted by _validate_config, generate_records
\* ends without raising, with num_records records in the dataset.
C15_SynthesisCannotFail ==
    (Generating /\ _validate_config(TheGen.config).exc = "")
        => (outcome = "ok" /\ TheGen.generated /\ Len(TheGen.records) >= TheGen.num_records)

\* C16: after generate_records the dataset holds exactly num_records records,
\* the sample records first, in their order and as they were given.
C16_ExactlyNumRecords ==
    (Generating /\ outcome = "ok") =>
        /\ Len(TheGen.records) = TheGen.num_records
        /\ Len(TheGen.sample_data) <= Len(TheGen.records)
        /\ SubSeq(TheGen.records, 1, Len(TheGen.sample_data)) = TheGen.sample_data

\* the field names of a schema are unique (the invariant of a DatasetSchema)
UniqueNames(fields) ==
    \A i, j \in DOMAIN fields : fields[i].name = fields[j].name => i = j

\* the value v lies in the declared domain of field f
InDomain(f, v) ==
    IF f.type = "int"
    THEN v.ty = "int" /\ f.values.min.i <= v.i /\ v.i <= f.values.max.i
    ELSE IF f.type = "str"
    THEN \E i \in DOMAIN f.values.items : f.values.items[i] = v
    ELSE v \in {BoolLit(TRUE), BoolLit(FALSE)}

SameRun(g, h) ==
    /\ gens[g].generated /\ gens[h].generated
    /\ gens[g].config = gens[h].config
    /\ gens[g].num_records = gens[h].num_records
    /\ gens[g].sample_data = gens[h].sample_data

\* C18: for a fixed schema and seed, any two synthesis runs produce the same
\* dataset, whatever was interleaved between seeding and generation (another
\* generator constructed, a generate_records before, a SchemaGenerator).
C18_SameSeedSameDataset ==
    \A g, h \in Generators : SameRun(g, h) => gens[g].records = gens[h].records

\* C19: save_to_sqlite of a generated dataset succeeds, the first time and
\* the second, on one generator or on two, and leaves exactly num_records rows
\* in the table.  (AttributeError is the save before generate_records, which
\* holds no dataset.)
C19_ReplaceNotAppend ==
    (op = "save_to_sqlite" /\ outcome # "AttributeError") =>
        /\ outcome = "ok"
        /\ store.exists
        /\ Len(store.rows) = ValidConfig.data_generation.num_records

\* a table as a complete write leaves it: every record of a dataset
CompleteTable(df) == Len(df.rows) = ValidConfig.data_generation.num_records

\* C20: with the replace of one session and the read of another interleaved,
\* or after a save that failed part-way, every executed query returns a
\* complete table: never an error for a missing table, never a table with
\* fewer rows than a dataset has.
C20_ReplaceIsAtomic ==
    \A s \in Sessions :
        sess[s].answer.ran =>
            /\ sess[s].answer.outcome = "ok"
            /\ CompleteTable(sess[s].answer.df)

\* C21: between the calls of the public operations no store connection owned
\* by an object is open: none of a DataGenerator after construction,
\* generate_records, write_to_csv or a failed save_to_sqlite.
C21_NoConnectionAcrossCalls ==
    \A g \in Generators : gens[g].alive => gens[g].conn # "open"

\* the num_records argument is an integer in 1..10,000,000
ValidCount(l) == IsInteger(l) /\ l.i >= 1 /\ l.i <= MaxNumRecords

\* C22: a DataGenerator constructed with a num_records argument (anything but
\* None, an explicit 0 included) that is not an integer in 1..10,000,000 is
\* not built: a construction that succeeds was given a valid count, and
\* generates with that count and no other.
C22_InvalidCountRejected ==
    (op = "DataGenerator" /\ outcome = "ok" /\ TheGen.asked # NoNumber) =>
        /\ ValidCount(TheGen.asked)
        /\ TheGen.num_records = TheGen.asked.i

\* the answer the validator holds is what its current query returns
AnswerOfCurrentQuery ==
    /\ _validate_query_safety(query).ok
    /\ StoreRun(query, store).exc = ""
    /\ answer_df = StoreRun(query, store).df

\* C29: a validate_answer that follows an execute_query failed with
\* SecurityError or DatabaseError returns no match verdict computed from the
\* result an earlier query left in answer_df.
C29_NoStaleVerdict ==
    [][(/\ op = "execute_query"
        /\ outcome \in {"SecurityError", "DatabaseError"}
        /\ op' = "validate_answer"
        /\ outcome' = "ok"
        /\ verdict'.v.is_match) => AnswerOfCurrentQuery]_vars

\* the hint system holds between 0 and hint_count hints, and what remains
\* is the rest; after reset every hint remains and no penalty is owed
HintsWithinCount ==
    hs.alive =>
        LET hint_count == get_config(hs.difficulty_level).hint_count
        IN  /\ Len(hs.hints_used) >= 0
            /\ Len(hs.hints_used) <= hint_count
            /\ get_hints_remaining(hs) >= 0
            /\ get_hints_remaining(hs) + Len(hs.hints_used) = hint_count
            /\ op = "reset" => /\ get_hints_remaining(hs) = hint_count
                               /\ calculate_total_penalty(hs) = 0

\* a get_next_hint with all hints used raises ValueError and changes nothing
ExhaustedRaises ==
    (op' = "get_next_hint" /\ Len(hs.hints_used) >= get_config(hs.difficulty_level).hint_count)
        => (outcome' = "ValueError" /\ hs' = hs)

\* C23: on a ProgressiveHintSystem, 0 <= len(hints_used) <= hint_count and
\* get_hints_remaining() = hint_count - len(hints_used) always; get_next_hint
\* with no hint remaining raises ValueError and leaves hints_used as it is;
\* reset gives back every hint and a total penalty of 0.
C23_HintsBounded == []HintsWithinCount /\ [][ExhaustedRaises]_vars

C23_Witness ==
    /\ op = "get_next_hint"
    /\ outcome = "ValueError"
    /\ hs.difficulty_level = "BEGINNER"
    /\ Len(hs.hints_used) = 5

\* hint number k of a system with hint_count hints has the level the claim
\* gives it; lastIsExplicit tells for which hint_count the last is EXPLICIT
Progressive(self, lastIsExplicit) ==
    LET hint_count == get_config(self.difficulty_level).hint_count
        level(k) == self.hints_used[k].level
    IN  \A k \in DOMAIN self.hints_used :
            /\ k = 1 => level(k) = "SUBTLE"
            /\ (k = hint_count /\ lastIsExplicit[hint_count]) => level(k) = "EXPLICIT"
            /\ (k > 1 /\ k < hint_count) => level(k) = "MODERATE"
            /\ k > 1 => HintLevel[level(k)] >= HintLevel[level(k - 1)]

\* C24 as claimed: at every difficulty level, hint_count 5, 3, 2 and 1, the
\* first hint is SUBTLE, hint number hint_count is EXPLICIT, those between
\* are MODERATE and the levels never decrease.
C24_ProgressiveAtEveryCount ==
    hs.alive => Progressive(hs, [n \in 1..5 |-> TRUE])

\* C24 amended: the same for hint_count 5, 3 and 2; with hint_count 1 the one
\* hint is the first, and SUBTLE.
C24_ProgressiveFromTwoHints ==
    hs.alive => Progressive(hs, [n \in 1..5 |-> n > 1])

C24_Witness ==
    /\ hs.alive
    /\ hs.difficulty_level = "BEGINNER"
    /\ Len(hs.hints_used) = 5
    /\ hs.hints_used[5].level = "EXPLICIT"
    /\ hs.hints_used[4].level = "MODERATE"

RECURSIVE Count(_, _)
\* how many elements of seq are x
Count(seq, x) ==
    IF seq = <<>> THEN 0 ELSE (IF Head(seq) = x THEN 1 ELSE 0) + Count(Tail(seq), x)

RECURSIVE SumOver(_, _)
\* the sum of f over the set S
SumOver(f, S) ==
    IF S = {} THEN 0 ELSE LET x == CHOOSE x \in S : TRUE IN f[x] + SumOver(f, S \ {x})

\* a question is completed once if a correct attempt is recorded under it and
\* not at all otherwise; the counters count the recorded attempts
AttemptsCounted ==
    /\ \A q \in QuestionNames :
        Count(user.completed_questions, q) =
            IF Count(user.attempts[q], TRUE) > 0 THEN 1 ELSE 0
    /\ Len(user.completed_questions) <= Cardinality(QuestionNames)
    /\ user.statistics.total_attempts =
           SumOver([q \in QuestionNames |-> Len(user.attempts[q])], QuestionNames)
    /\ user.statistics.correct_attempts =
           SumOver([q \in QuestionNames |-> Count(user.attempts[q], TRUE)], QuestionNames)

\* an attempt recorded for the current question is filed under it
AttemptFiled ==
    (op' = "record_solution_attempt" /\ outcome' = "ok") =>
        \E is_correct \in BOOLEAN :
            user'.attempts = [user.attempts EXCEPT ![user.current_question] =
                                                       Append(@, is_correct)]

\* with no current question the call raises ValueError and changes nothing
NoQuestionRaises ==
    (op' = "record_solution_attempt" /\ user.current_question = NoQuestion) =>
        (outcome' = "ValueError" /\ user' = user /\ user_file' = user_file)

\* C25: after any start_question and record_solution_attempt calls a question
\* is in completed_questions exactly once if a correct attempt was recorded
\* while it was current, and not otherwise; total_attempts and
\* correct_attempts count the attempts; record_solution_attempt with no
\* current question raises ValueError and changes nothing.
C25_CompletedOnce ==
    []AttemptsCounted /\ [][AttemptFiled /\ NoQuestionRaises]_vars

C25_Witness ==
    /\ op = "record_solution_attempt"
    /\ user.attempts["q1"] = <<FALSE, TRUE, TRUE>>
    /\ user.completed_questions = <<"q1">>

MutatingOps == {"start_question", "record_solution_attempt", "update_score",
                "mark_level_completed"}

\* C26: after every mutating User operation returns, the progress file holds
\* the progress in memory, and a new User of the same username loads exactly
\* the progress the instance before it had.
C26_FileIsProgress ==
    /\ [](op \in MutatingOps /\ outcome = "ok"
             => user_file.exists /\ load_progress(user_file) = user)
    /\ [][op' = "User" => user' = user]_vars

C26_Witness ==
    /\ op = "User"
    /\ user.current_question = "q1"
    /\ user.completed_questions = <<"q1">>
    /\ user.completed_levels = <<"BEGINNER">>
    /\ user.total_score = 100

\* the chain of the claim: the level right below each level
ImmediatePrerequisite ==
    [l \in DifficultyLevel |->
        CASE l = "BEGINNER" -> NoLevel
          [] l = "INTERMEDIATE" -> "BEGINNER"
          [] l = "ADVANCED" -> "INTERMEDIATE"
          [] l = "EXPERT" -> "ADVANCED"]

\* C27: validate_progression(level, completed) is True exactly when the
\* level is BEGINNER or its immediate prerequisite is in completed; the
\* prerequisites are the chain BEGINNER < INTERMEDIATE < ADVANCED < EXPERT;
\* the prerequisite of get_next_level(l) is l, and get_next_level(EXPERT) is
\* None.
C27_ProgressionChain ==
    /\ \A l \in DifficultyLevel : get_config(l).prerequisite_level = ImmediatePrerequisite[l]
    /\ calc.fn = "validate_progression" =>
           (calc.allowed <=> (calc.level = "BEGINNER"
                              \/ ImmediatePrerequisite[calc.level] \in calc.completed_levels))
    /\ calc.fn = "get_next_level" =>
           IF calc.level = "EXPERT" THEN calc.next = NoLevel
           ELSE /\ calc.next \in DifficultyLevel
                /\ get_config(calc.next).prerequisite_level = calc.level

C27_Witness ==
    /\ calc.fn = "validate_progression"
    /\ calc.level = "ADVANCED"
    /\ calc.completed_levels = {"BEGINNER", "EXPERT"}
    /\ ~calc.allowed

\* the bonus of the claim
Bonus(level, time_taken) ==
    IF time_taken <= get_config(level).time_bonus_threshold THEN 50 ELSE 0

\* C28: calculate_score is 0 for an incorrect attempt and, for a correct
\* one, max(0, 100 * scoring_multiplier - hints_used * hint_penalty_points
\* + bonus); it is never negative.
C28_ScoreFormula ==
    calc.fn = "calculate_score" =>
        LET config == get_config(calc.level)
            raw == 100 * config.scoring_multiplier
                   - calc.hints_used * config.hint_penalty_points
                   + Bonus(calc.level, calc.time_taken)
        IN  /\ calc.score >= 0
            /\ ~calc.is_correct => calc.score = 0
            /\ calc.is_correct => calc.score = Max({0, raw})

C28_Witness ==
    /\ calc.fn = "calculate_score"
    /\ calc.is_correct
    /\ calc.level = "BEGINNER"
    /\ calc.hints_used = 31
    /\ calc.score = 0

\* C30: on a HintManager, global_hints_used is the sum over its hint systems
\* of the hints they have recorded, after every request_hint, reset_question
\* and reset_all; a request_hint that fails adds nothing to it.
C30_GlobalIsSum ==
    mgr.global_hints_used =
        SumOver([q \in QuestionNames |-> Len(mgr.hint_systems[q].hints_used)], QuestionNames)

====
